---- MODULE Spec2Model ----
(***************************************************************************)
(* RankBuddy: the keyword aggregation, categorisation and difficulty       *)
(* scoring engine of rankbuddy_app.py (the real-time analyzer) and         *)
(* rankbuddy_app_backup.py (the offline analyzer), with the Streamlit      *)
(* session cache of their main().                                          *)
(*                                                                         *)
(* A Python str is a sequence of one-character strings: <<"s","e","o">>    *)
(* is "seo".  A Python set is a set.  A list built by list(set(x)) holds   *)
(* each member once in an order the program does not fix: AsList gives one *)
(* enumeration, and operations that read the order are checked over every  *)
(* order of their input.  A number computed with "/" is an exact rational  *)
(* [n |-> numerator, d |-> denominator].                                   *)
(***************************************************************************)
EXTENDS Integers, Sequences, FiniteSets, TLC

VARIABLES
    session_state,  \* st.session_state: a dict, a function from its keys
    run,            \* the last run of main(): its inputs and what it did
    issued,         \* the HTTP requests and sleeps of the last run, in order
    agg,            \* direct calls of generate_real_keywords on one input
    cat,            \* a call of categorize_keywords
    est,            \* a call of the difficulty estimators
    prompt          \* a call of generate_ai_prompt

vars == <<session_state, run, issued, agg, cat, est, prompt>>

----------------------------------------------------------------------------
(* Python str operations *)

UpperLetters ==
    <<"A","B","C","D","E","F","G","H","I","J","K","L","M",
      "N","O","P","Q","R","S","T","U","V","W","X","Y","Z">>

LowerLetters ==
    <<"a","b","c","d","e","f","g","h","i","j","k","l","m",
      "n","o","p","q","r","s","t","u","v","w","x","y","z">>

\* the characters str.split() and str.strip() treat as whitespace
Whitespace == {" ", "\t", "\n"}

IsSpace(c) == c \in Whitespace

LowerChar(c) ==
    IF \E i \in 1..26 : UpperLetters[i] = c
    THEN LowerLetters[CHOOSE i \in 1..26 : UpperLetters[i] = c]
    ELSE c

UpperChar(c) ==
    IF \E i \in 1..26 : LowerLetters[i] = c
    THEN UpperLetters[CHOOSE i \in 1..26 : LowerLetters[i] = c]
    ELSE c

\* a JSON number among the items of a response: the one value here that is
\* not a str (len(), .lower() and .split() raise on it; it is truthy and
\* hashable, and an f-string renders it as "5")
JsonNumber == <<"#5">>

IsStr(x) == x # JsonNumber

\* f"{x}"
Format(x) == IF IsStr(x) THEN x ELSE <<"5">>

\* bool(x) of a response item
Truthy(x) == x # <<>>

\* str.lower()
Lower(s) == [i \in 1..Len(s) |-> LowerChar(s[i])]

\* str.strip()
Strip(s) ==
    LET ink == {i \in 1..Len(s) : ~IsSpace(s[i])}
    IN  IF ink = {} THEN <<>>
        ELSE LET lo == CHOOSE i \in ink : \A j \in ink : i <= j
                 hi == CHOOSE i \in ink : \A j \in ink : j <= i
             IN  SubSeq(s, lo, hi)

\* the positions where a word of s.split() starts
WordStarts(s) ==
    {i \in 1..Len(s) : ~IsSpace(s[i]) /\ (i = 1 \/ IsSpace(s[i - 1]))}

\* len(s.split())
WordCount(s) == Cardinality(WordStarts(s))

\* sum(len(word) for word in s.split())
SumWordLen(s) == Cardinality({i \in 1..Len(s) : ~IsSpace(s[i])})

\* the word of s that starts at position i
WordAt(s, i) ==
    LET ends == {j \in i..Len(s) : j = Len(s) \/ IsSpace(s[j + 1])}
    IN  SubSeq(s, i, CHOOSE j \in ends : \A k \in ends : j <= k)

\* s.split(), as the set of its words
Words(s) == {WordAt(s, i) : i \in WordStarts(s)}

\* needle in hay
Contains(hay, needle) ==
    \E i \in 0..(Len(hay) - Len(needle)) :
        SubSeq(hay, i + 1, i + Len(needle)) = needle

\* f"{a} {b}"
Join(a, b) == Format(a) \o <<" ">> \o Format(b)

Range(q) == {q[i] : i \in DOMAIN q}

RECURSIVE AsList(_)
\* list(S): one enumeration of the set S
AsList(S) ==
    IF S = {} THEN <<>>
    ELSE LET x == CHOOSE y \in S : TRUE
         IN  <<x>> \o AsList(S \ {x})

RECURSIVE DropSome(_, _)
\* the sets left when k members of S are dropped
DropSome(S, k) ==
    IF k = 0 THEN {S}
    ELSE UNION {DropSome(S \ {x}, k - 1) : x \in S}

\* set(list(S)[:n]): the first n members in iteration order, any n of them
Truncations(S, n) ==
    IF Cardinality(S) <= n THEN {S} ELSE DropSome(S, Cardinality(S) - n)

\* q[:n]
Prefix(q, n) == SubSeq(q, 1, IF Len(q) < n THEN Len(q) ELSE n)

\* list(set(q))[:n]: the lists it may be, the order of a set being open
UniquePrefixes(q, n) == {AsList(T) : T \in Truncations(Range(q), n)}

----------------------------------------------------------------------------
(* HTTP responses.  A response is what one session.get() leads to:         *)
(*   st = "raise"   the call, response.json() or the reading of the body   *)
(*                  raises (transport error, timeout, a body of another    *)
(*                  shape than the one indexed)                            *)
(*   st = "non200"  a status code other than 200                           *)
(*   st = "ok"      status 200 with the expected containers; items are the *)
(*                  values found in them, str or not                       *)

Raise == [st |-> "raise", items |-> <<>>]
Non200 == [st |-> "non200", items |-> <<>>]
Ok(items) == [st |-> "ok", items |-> items]

\* an entry of the log of a run
Request(api, q) == [ev |-> "request", api |-> api, q |-> q]
Sleep == [ev |-> "sleep", api |-> "suggest", q |-> <<>>]

\* a Datamuse item without a 'word' key
NoWordKey == <<"#noword">>

----------------------------------------------------------------------------
(* RealTimeKeywordAPI *)

AutocompleteCap == 20
RelatedCap == 30
DatamuseCap == 25
WikipediaCap == 20

\* get_google_autocomplete without the comparison to the keyword
get_google_autocomplete_keeps_seed(keyword, r) ==
    IF r.st = "ok"
    THEN Prefix(SelectSeq(r.items, Truthy), AutocompleteCap)
    ELSE <<>>

\* get_google_autocomplete(keyword): the list returned
get_google_autocomplete(keyword, r) ==
    IF r.st = "ok"
    THEN Prefix(SelectSeq(r.items, LAMBDA s : Truthy(s) /\ s # keyword),
                AutocompleteCap)
    ELSE <<>>

autocomplete_log(keyword) == <<Request("suggest", keyword)>>

\* the query variations of get_google_related_searches
Variations(keyword) ==
    << <<"h","o","w"," ","t","o"," ">> \o keyword,
       <<"w","h","a","t"," ","i","s"," ">> \o keyword,
       <<"b","e","s","t"," ">> \o keyword,
       keyword \o <<" ","g","u","i","d","e">>,
       keyword \o <<" ","t","u","t","o","r","i","a","l">>,
       keyword \o <<" ","t","i","p","s">>,
       keyword \o <<" ","e","x","a","m","p","l","e","s">>,
       keyword \o <<" ","t","o","o","l","s">>,
       keyword \o <<" ","f","r","e","e">>,
       keyword \o <<" ","2","0","2","4">> >>

\* whether the body of the inner try raises: the request, or s.lower() on
\* an item that is truthy and not a str
VariationRaises(r) ==
    \/ r.st = "raise"
    \/ r.st = "ok" /\ \E i \in DOMAIN r.items :
                         Truthy(r.items[i]) /\ ~IsStr(r.items[i])

\* VariationSuggestions without the test for the keyword
VariationSuggestions_unfiltered(keyword, r) ==
    IF r.st = "ok" /\ ~VariationRaises(r)
    THEN SelectSeq(r.items, Truthy)
    ELSE <<>>

\* what one variation extends `related` with
VariationSuggestions(keyword, r) ==
    IF r.st = "ok" /\ ~VariationRaises(r)
    THEN SelectSeq(r.items,
                   LAMBDA s : Truthy(s) /\ Contains(Lower(s), Lower(keyword)))
    ELSE <<>>

RECURSIVE related_list(_, _, _)
\* `related` after the variations i..10
related_list(keyword, rs, i) ==
    IF i > Len(rs) THEN <<>>
    ELSE VariationSuggestions(keyword, rs[i]) \o related_list(keyword, rs, i + 1)

\* get_google_related_searches(keyword): the lists it may return
get_google_related_searches(keyword, rs) ==
    UniquePrefixes(related_list(keyword, rs, 1), RelatedCap)

RECURSIVE related_log_until_raise(_, _, _)
\* related_log with the try around the loop: the first variation that
\* raises ends the method
related_log_until_raise(keyword, rs, i) ==
    IF i > Len(rs) THEN <<>>
    ELSE IF VariationRaises(rs[i])
         THEN <<Request("suggest", Variations(keyword)[i])>>
         ELSE <<Request("suggest", Variations(keyword)[i]), Sleep>>
                  \o related_log_until_raise(keyword, rs, i + 1)

RECURSIVE related_log_retry(_, _, _)
\* related_log with a second attempt for a variation that raises
related_log_retry(keyword, rs, i) ==
    IF i > Len(rs) THEN <<>>
    ELSE <<Request("suggest", Variations(keyword)[i])>>
         \o (IF VariationRaises(rs[i])
             THEN <<Request("suggest", Variations(keyword)[i])>>
             ELSE <<Sleep>>)
         \o related_log_retry(keyword, rs, i + 1)

RECURSIVE related_log(_, _, _)
\* the requests and sleeps of the variations i..10
related_log(keyword, rs, i) ==
    IF i > Len(rs) THEN <<>>
    ELSE <<Request("suggest", Variations(keyword)[i])>>
         \o (IF VariationRaises(rs[i]) THEN <<>> ELSE <<Sleep>>)
         \o related_log(keyword, rs, i + 1)

\* the sequential requests of a method whose one try covers them all: the
\* first that raises ends the method
FirstRaise(rs) ==
    IF \E i \in DOMAIN rs : rs[i].st = "raise"
    THEN CHOOSE i \in DOMAIN rs :
             rs[i].st = "raise" /\ \A j \in 1..(i - 1) : rs[j].st # "raise"
    ELSE 0

RECURSIVE ok_items(_, _)
\* the items of the responses i.. that have status 200, in order
ok_items(rs, i) ==
    IF i > Len(rs) THEN <<>>
    ELSE (IF rs[i].st = "ok" THEN rs[i].items ELSE <<>>) \o ok_items(rs, i + 1)

\* related_words of get_datamuse_related after the three requests
datamuse_words(rs) == SelectSeq(ok_items(rs, 1), LAMBDA w : w # NoWordKey)

\* get_datamuse_related returning from its except what the requests before
\* the one that raised had added
get_datamuse_related_keeps_earlier(keyword, rs) ==
    IF FirstRaise(rs) # 0
    THEN UniquePrefixes(datamuse_words(SubSeq(rs, 1, FirstRaise(rs) - 1)),
                        DatamuseCap)
    ELSE UniquePrefixes(datamuse_words(rs), DatamuseCap)

\* get_datamuse_related returning related_words[:25], without set()
get_datamuse_related_no_set(keyword, rs) ==
    IF FirstRaise(rs) # 0 THEN {<<>>}
    ELSE {Prefix(datamuse_words(rs), DatamuseCap)}

\* get_datamuse_related(keyword): ml, lc and rc, merged; the lists it may
\* return
get_datamuse_related(keyword, rs) ==
    IF FirstRaise(rs) # 0 THEN {<<>>}
    ELSE UniquePrefixes(datamuse_words(rs), DatamuseCap)

\* the parameter of the three Datamuse requests
DatamuseRelations == <<"datamuse_ml", "datamuse_lc", "datamuse_rc">>

datamuse_log(keyword, rs) ==
    LET n == IF FirstRaise(rs) # 0 THEN FirstRaise(rs) ELSE Len(rs)
    IN  [i \in 1..n |-> Request(DatamuseRelations[i], keyword)]

\* the words get_wikipedia_terms never keeps
common_words ==
    { <<"T","h","e">>, <<"T","h","i","s">>, <<"T","h","a","t">>, <<"T","h","e","s","e">>, <<"T","h","o","s","e">>, <<"A","n","d">>, <<"B","u","t">>, <<"O","r">>,
      <<"I","f">>, <<"W","h","e","n">>, <<"W","h","e","r","e">>, <<"H","o","w">>, <<"W","h","a","t">>, <<"W","h","y">>, <<"W","h","o">>, <<"W","h","i","c","h">> }

\* the terms kept of the summary: rs[1].items is what re.findall returns
\* on the extract
summary_terms(r) ==
    IF r.st = "ok"
    THEN {w \in Range(r.items) : w \notin common_words /\ Len(w) > 3}
    ELSE {}

\* related_terms of get_wikipedia_terms after the two requests: summary
\* terms and search titles
wikipedia_terms(rs) ==
    AsList(summary_terms(rs[1]))
        \o (IF rs[2].st = "ok" THEN rs[2].items ELSE <<>>)

\* get_wikipedia_terms(keyword): the lists it may return
get_wikipedia_terms(keyword, rs) ==
    IF FirstRaise(rs) # 0 THEN {<<>>}
    ELSE UniquePrefixes(wikipedia_terms(rs), WikipediaCap)

wikipedia_log(keyword, rs) ==
    LET n == IF FirstRaise(rs) # 0 THEN FirstRaise(rs) ELSE Len(rs)
    IN  [i \in 1..n |->
            Request(IF i = 1 THEN "wiki_summary" ELSE "wiki_search", keyword)]

----------------------------------------------------------------------------
(* RealTimeSEOAnalyzer.generate_real_keywords *)

MinKeywordLen == 3
MaxKeywordLen == 100
MaxKeywordWords == 6
MaxWikiTermWords == 3
PoolCap == 50

\* the responses of one aggregation: one for the completion request, ten
\* for the variations, three for Datamuse, two for Wikipedia
Responses(auto, rel, dm, wiki) ==
    [auto |-> auto, rel |-> rel, dm |-> dm, wiki |-> wiki]

\* datamuse_phrases with the bare word added as well
datamuse_phrases_with_word(word, seed_keyword) ==
    {Join(word, seed_keyword), Join(seed_keyword, word), word}

\* the two phrases added for a Datamuse word
datamuse_phrases(word, seed_keyword) ==
    {Join(word, seed_keyword), Join(seed_keyword, word)}

\* wiki_phrases without the test of the number of words
wiki_phrases_any_length(term, seed_keyword) ==
    {Join(Lower(term), seed_keyword), Join(seed_keyword, Lower(term))}

\* the phrases added for a Wikipedia term (a str)
wiki_phrases(term, seed_keyword) ==
    IF WordCount(term) <= MaxWikiTermWords
    THEN {Join(Lower(term), seed_keyword), Join(seed_keyword, Lower(term))}
    ELSE {}

\* all_keywords before the filter, given what the four sources returned
merge_keywords(seed_keyword, suggestions, related, words, terms) ==
    {Lower(seed_keyword)}
        \cup Range(suggestions)
        \cup Range(related)
        \cup UNION {datamuse_phrases(w, seed_keyword) : w \in Range(words)}
        \cup UNION {wiki_phrases(t, seed_keyword) :
                       t \in {u \in Range(terms) : IsStr(u)}}

\* keeps with the upper limit of the length exclusive
keeps_exclusive(keyword) ==
    /\ MinKeywordLen <= Len(keyword)
    /\ Len(keyword) < MaxKeywordLen
    /\ WordCount(keyword) <= MaxKeywordWords

\* the condition of the filter, on a member of all_keywords (a str)
keeps(keyword) ==
    /\ MinKeywordLen <= Len(keyword)
    /\ Len(keyword) <= MaxKeywordLen
    /\ WordCount(keyword) <= MaxKeywordWords

\* clean without .lower()
clean_unlowered(keyword) == Strip(keyword)

\* what the filter appends for a kept member
clean(keyword) == Lower(Strip(keyword))

\* filtered_keywords, as a list
filter_keywords(all_keywords) ==
    LET kept == SelectSeq(AsList(all_keywords), keeps)
    IN  [i \in 1..Len(kept) |-> clean(kept[i])]

\* list(set(filtered_keywords))[:50]: the pools it may be
top_unique(filtered_keywords) == UniquePrefixes(filtered_keywords, PoolCap)

\* whether generate_real_keywords raises: term.split() or len(keyword) on
\* a value that is not a str
generate_raises(suggestions, terms) ==
    \/ \E t \in Range(terms) : ~IsStr(t)
    \/ \E i \in DOMAIN suggestions : ~IsStr(suggestions[i])

\* one way a call may end, given what the sources returned
generate_outcomes(seed_keyword, suggestions, related, words, terms) ==
    LET all_keywords ==
            merge_keywords(seed_keyword, suggestions, related, words, terms)
        from_words ==
            UNION {datamuse_phrases(w, seed_keyword) : w \in Range(words)}
        from_terms ==
            UNION {wiki_phrases(t, seed_keyword) :
                      t \in {u \in Range(terms) : IsStr(u)}}
        returned == [suggestions |-> suggestions, related |-> related,
                     words |-> words, terms |-> terms]
    IN  IF generate_raises(suggestions, terms)
        THEN {[raised |-> TRUE, returned |-> returned,
               all_keywords |-> all_keywords,
               words |-> Range(words), from_words |-> from_words,
               from_terms |-> from_terms,
               kept |-> {}, pool |-> <<>>]}
        ELSE {[raised |-> FALSE, returned |-> returned,
               all_keywords |-> all_keywords,
               words |-> Range(words), from_words |-> from_words,
               from_terms |-> from_terms,
               kept |-> {k \in all_keywords : keeps(k)}, pool |-> p] :
                  p \in top_unique(filter_keywords(all_keywords))}

\* generate_real_keywords(seed_keyword) under the responses resp: the ways
\* the call may end.  raised: an exception leaves the method; returned: the
\* lists the four sources returned; all_keywords and kept: the set before
\* the filter and its members that pass; words and from_words: the Datamuse
\* words and what was added to all_keywords for them; from_terms: what was
\* added for the Wikipedia terms; pool: the list returned
generate_real_keywords(seed_keyword, resp) ==
    UNION {generate_outcomes(seed_keyword,
                             get_google_autocomplete(seed_keyword, resp.auto),
                             related, words, terms) :
              <<related, words, terms>> \in
                  get_google_related_searches(seed_keyword, resp.rel)
                      \X get_datamuse_related(seed_keyword, resp.dm)
                      \X get_wikipedia_terms(seed_keyword, resp.wiki)}

\* the requests and sleeps of generate_real_keywords, in order
generate_log(seed_keyword, resp) ==
    autocomplete_log(seed_keyword)
        \o related_log(seed_keyword, resp.rel, 1)
        \o datamuse_log(seed_keyword, resp.dm)
        \o wikipedia_log(seed_keyword, resp.wiki)

----------------------------------------------------------------------------
(* RealTimeSEOAnalyzer.categorize_keywords *)

ShortTailMaxWords == 2

\* categorize_keywords with word_count < 2 for the short tail
categorize_keywords_strict(keywords) ==
    [short_tail |-> SelectSeq(keywords,
                              LAMBDA k : WordCount(k) < ShortTailMaxWords),
     long_tail |-> SelectSeq(keywords,
                             LAMBDA k : ~(WordCount(k) < ShortTailMaxWords))]

categorize_keywords(keywords) ==
    [short_tail |-> SelectSeq(keywords,
                              LAMBDA k : WordCount(k) <= ShortTailMaxWords),
     long_tail |-> SelectSeq(keywords,
                             LAMBDA k : ~(WordCount(k) <= ShortTailMaxWords))]

----------------------------------------------------------------------------
(* Exact rationals, for the values Python computes with "/" *)

Rat(n, d) == [n |-> n, d |-> d]
Whole(k) == Rat(k, 1)
RLe(a, b) == a.n * b.d <= b.n * a.d
RLt(a, b) == a.n * b.d < b.n * a.d
REq(a, b) == a.n * b.d = b.n * a.d
RMax(a, b) == IF RLe(a, b) THEN b ELSE a
RMin(a, b) == IF RLe(a, b) THEN a ELSE b
RAdd(a, b) == Rat(a.n * b.d + b.n * a.d, a.d * b.d)
RSub(a, b) == Rat(a.n * b.d - b.n * a.d, a.d * b.d)

\* sum(len(word) for word in words) / len(words) if words else 0
AvgWordLen(s) ==
    IF WordCount(s) = 0 THEN Whole(0) ELSE Rat(SumWordLen(s), WordCount(s))

----------------------------------------------------------------------------
(* RealTimeKeywordAPI.estimate_keyword_difficulty: the lexical heuristic *)

high_competition_terms ==
    {<<"b","e","s","t">>, <<"t","o","p">>, <<"f","r","e","e">>, <<"r","e","v","i","e","w">>, <<"b","u","y">>, <<"c","h","e","a","p">>, <<"p","r","i","c","e">>}

\* base_difficulty without the floor of 10
base_difficulty_no_floor(keyword) ==
    RSub(Whole(80 - 15 * WordCount(Lower(keyword))),
         RAdd(AvgWordLen(Lower(keyword)), AvgWordLen(Lower(keyword))))

\* base_difficulty rising with the number and the length of the words
base_difficulty_rising(keyword) ==
    RMax(Whole(10),
         RAdd(Whole(15 * WordCount(Lower(keyword))),
              RAdd(AvgWordLen(Lower(keyword)), AvgWordLen(Lower(keyword)))))

\* max(10, 80 - (word_count * 15) - (avg_length * 2))
base_difficulty(keyword) ==
    RMax(Whole(10),
         RSub(Whole(80 - 15 * WordCount(Lower(keyword))),
              RAdd(AvgWordLen(Lower(keyword)), AvgWordLen(Lower(keyword)))))

\* the places of s where a high-competition term occurs
TermOccurrences(s) ==
    {<<t, i>> \in high_competition_terms \X (1..Len(s)) :
        i + Len(t) - 1 <= Len(s) /\ SubSeq(s, i, i + Len(t) - 1) = t}

\* competition_boost with 5 for every occurrence of a term
competition_boost_per_occurrence(keyword) ==
    5 * Cardinality(TermOccurrences(Lower(keyword)))

\* sum(5 for term in high_competition_terms if term in keyword.lower())
competition_boost(keyword) ==
    5 * Cardinality({t \in high_competition_terms :
                        Contains(Lower(keyword), t)})

\* estimate_keyword_difficulty(keyword); keyword.lower() raises on a value
\* that is not a str, and the except returns 50
estimate_keyword_difficulty(keyword) ==
    IF ~IsStr(keyword) THEN Whole(50)
    ELSE RMin(Whole(95),
              RAdd(base_difficulty(keyword), Whole(competition_boost(keyword))))

\* analyze_keyword_difficulty(keywords): the dict, as a function from the
\* keywords of the list
analyze_keyword_difficulty(keywords) ==
    [k \in Range(keywords) |-> estimate_keyword_difficulty(k)]

----------------------------------------------------------------------------
(* SEOAnalyzer.estimate_keyword_difficulty: the frequency-informed heuristic *)

Digits == {"0","1","2","3","4","5","6","7","8","9"}

\* [a-zA-Z0-9\s]
IsCleanChar(c) ==
    \/ IsSpace(c)
    \/ c \in Digits
    \/ \E i \in 1..26 : LowerLetters[i] = c \/ UpperLetters[i] = c

\* clean_text(text): re.sub(r'[^a-zA-Z0-9\s]', '', text.lower())
clean_text(text) == SelectSeq(Lower(text), IsCleanChar)

\* load_word_frequencies()
word_frequencies ==
    {
      <<<<"h","o","w">>, 850000>>, <<<<"w","h","a","t">>, 750000>>, <<<<"b","e","s","t">>, 680000>>,
      <<<<"t","o","p">>, 620000>>, <<<<"g","u","i","d","e">>, 450000>>, <<<<"t","i","p","s">>, 380000>>,
      <<<<"r","e","v","i","e","w">>, 320000>>, <<<<"f","r","e","e">>, 280000>>, <<<<"t","u","t","o","r","i","a","l">>, 240000>>,
      <<<<"b","u","s","i","n","e","s","s">>, 220000>>, <<<<"m","a","r","k","e","t","i","n","g">>, 180000>>, <<<<"s","e","o">>, 160000>>,
      <<<<"g","r","o","w","t","h">>, 140000>>, <<<<"s","t","a","r","t","u","p">>, 120000>>, <<<<"t","o","o","l","s">>, 110000>>,
      <<<<"s","t","r","a","t","e","g","y">>, 95000>>, <<<<"s","u","c","c","e","s","s">>, 85000>>, <<<<"o","n","l","i","n","e">>, 75000>>,
      <<<<"d","i","g","i","t","a","l">>, 65000>>, <<<<"b","e","g","i","n","n","e","r">>, 55000>>, <<<<"a","d","v","a","n","c","e","d">>, 45000>>,
      <<<<"c","o","m","p","l","e","t","e">>, 40000>>, <<<<"u","l","t","i","m","a","t","e">>, 35000>>, <<<<"s","i","m","p","l","e">>, 30000>>,
      <<<<"e","a","s","y">>, 28000>>, <<<<"q","u","i","c","k">>, 25000>>, <<<<"s","t","e","p">>, 22000>>,
      <<<<"e","f","f","e","c","t","i","v","e">>, 20000>>, <<<<"p","r","o","v","e","n">>, 18000>>, <<<<"e","x","a","m","p","l","e","s">>, 16000>>,
      <<<<"c","a","s","e">>, 15000>>, <<<<"s","t","u","d","y">>, 14000>>, <<<<"m","e","t","h","o","d">>, 13000>>,
      <<<<"t","e","c","h","n","i","q","u","e">>, 12000>>, <<<<"a","p","p","r","o","a","c","h">>, 11000>>, <<<<"f","r","a","m","e","w","o","r","k">>, 10000>>,
      <<<<"p","r","o","c","e","s","s">>, 9500>>, <<<<"s","y","s","t","e","m">>, 9000>>, <<<<"h","a","c","k">>, 8500>>,
      <<<<"s","e","c","r","e","t">>, 8000>>, <<<<"t","r","i","c","k">>, 7500>>, <<<<"m","i","s","t","a","k","e">>, 7000>>,
      <<<<"c","o","m","m","o","n">>, 6500>>, <<<<"p","o","p","u","l","a","r">>, 6000>>, <<<<"t","r","e","n","d","i","n","g">>, 5500>>,
      <<<<"l","a","t","e","s","t">>, 5000>>, <<<<"n","e","w">>, 4800>>, <<<<"u","p","d","a","t","e","d">>, 4600>>,
      <<<<"m","o","d","e","r","n">>, 4400>>, <<<<"p","r","o","f","i","t","a","b","l","e">>, 4200>>, <<<<"m","o","n","e","y">>, 4000>>,
      <<<<"e","n","t","r","e","p","r","e","n","e","u","r">>, 3800>>, <<<<"f","o","u","n","d","e","r">>, 3600>>, <<<<"i","n","d","i","e">>, 3400>>,
      <<<<"s","o","l","o">>, 3200>>, <<<<"s","m","a","l","l">>, 3000>>, <<<<"w","e","b","s","i","t","e">>, 2800>>,
      <<<<"b","l","o","g">>, 2600>>, <<<<"c","o","n","t","e","n","t">>, 2400>>, <<<<"o","p","t","i","m","i","z","a","t","i","o","n">>, 2200>>,
      <<<<"r","a","n","k">>, 2000>>, <<<<"r","a","n","k","i","n","g">>, 1800>>, <<<<"g","o","o","g","l","e">>, 1600>>,
      <<<<"s","e","a","r","c","h">>, 1400>>, <<<<"t","r","a","f","f","i","c">>, 1200>>, <<<<"c","o","n","v","e","r","s","i","o","n">>, 1000>>,
      <<<<"f","u","n","n","e","l">>, 900>>, <<<<"l","e","a","d","s">>, 800>>, <<<<"s","a","l","e","s">>, 700>>,
      <<<<"r","e","v","e","n","u","e">>, 600>>, <<<<"p","r","o","f","i","t">>, 500>>    }

\* self.word_frequencies[word] if word in self.word_frequencies, else 0
Frequency(word) ==
    IF \E p \in word_frequencies : p[1] = word
    THEN (CHOOSE p \in word_frequencies : p[1] = word)[2]
    ELSE 0

RECURSIVE SumFrequency(_, _)
\* total_frequency over the words of s that start at the positions in P
SumFrequency(s, P) ==
    IF P = {} THEN 0
    ELSE LET i == CHOOSE j \in P : TRUE
         IN  Frequency(WordAt(s, i)) + SumFrequency(s, P \ {i})

total_frequency(keyword) ==
    SumFrequency(clean_text(keyword), WordStarts(clean_text(keyword)))

\* min(total_frequency / 10000, 50)
frequency_score(keyword) == RMin(Rat(total_frequency(keyword), 10000), Whole(50))

\* length_score without the floor of 0
length_score_no_floor(keyword) ==
    Whole(30 - 5 * WordCount(clean_text(keyword)))

\* max(0, 30 - (word_count * 5))
length_score(keyword) ==
    RMax(Whole(0), Whole(30 - 5 * WordCount(clean_text(keyword))))

\* max(0, 20 - (avg_word_length * 2))
word_length_score(keyword) ==
    RMax(Whole(0),
         RSub(Whole(20),
              RAdd(AvgWordLen(clean_text(keyword)),
                   AvgWordLen(clean_text(keyword)))))

\* SEOAnalyzer.estimate_keyword_difficulty(keyword)
frequency_difficulty(keyword) ==
    RMin(RMax(RAdd(RAdd(frequency_score(keyword), length_score(keyword)),
                   word_length_score(keyword)),
              Whole(0)),
         Whole(100))

----------------------------------------------------------------------------
(* KeywordAPI.estimate_real_difficulty: the result-count estimator *)

DigitValue(c) ==
    CASE c = "0" -> 0 [] c = "1" -> 1 [] c = "2" -> 2 [] c = "3" -> 3
      [] c = "4" -> 4 [] c = "5" -> 5 [] c = "6" -> 6 [] c = "7" -> 7
      [] c = "8" -> 8 [] c = "9" -> 9

RECURSIVE ParseInt(_)
\* int(digits), digits a non-empty str of decimal digits
ParseInt(digits) ==
    IF Len(digits) = 0 THEN 0
    ELSE 10 * ParseInt(SubSeq(digits, 1, Len(digits) - 1))
           + DigitValue(digits[Len(digits)])

\* match.group(1).replace(',', '')
RemoveCommas(group) == SelectSeq(group, LAMBDA c : c # ",")

\* the heuristic of the fallback and of the except
\* min(100, max(10, max(0, 50 - (word_count * 8) - (avg_length * 2))))
fallback_difficulty(keyword) ==
    RMin(Whole(100),
         RMax(Whole(10),
              RMax(Whole(0),
                   RSub(Whole(50 - 8 * WordCount(Lower(keyword))),
                        RAdd(AvgWordLen(Lower(keyword)),
                             AvgWordLen(Lower(keyword)))))))

\* count_difficulty with the floor of the first band in every band
count_difficulty_one_floor(result_count) ==
    IF result_count < 10000
        THEN RMin(Whole(20), RMax(Whole(5), Rat(result_count, 500)))
    ELSE IF result_count < 100000
        THEN RMin(Whole(40), RMax(Whole(5), Rat(result_count, 2500)))
    ELSE IF result_count < 1000000
        THEN RMin(Whole(60), RMax(Whole(5), Rat(result_count, 16667)))
    ELSE IF result_count < 10000000
        THEN RMin(Whole(80), RMax(Whole(5), Rat(result_count, 125000)))
    ELSE RMin(Whole(95), RMax(Whole(5), Rat(result_count, 1000000)))

\* the score of a result count
count_difficulty(result_count) ==
    IF result_count < 10000
        THEN RMin(Whole(20), RMax(Whole(5), Rat(result_count, 500)))
    ELSE IF result_count < 100000
        THEN RMin(Whole(40), RMax(Whole(20), Rat(result_count, 2500)))
    ELSE IF result_count < 1000000
        THEN RMin(Whole(60), RMax(Whole(40), Rat(result_count, 16667)))
    ELSE IF result_count < 10000000
        THEN RMin(Whole(80), RMax(Whole(60), Rat(result_count, 125000)))
    ELSE RMin(Whole(95), RMax(Whole(80), Rat(result_count, 1000000)))

\* estimate_real_difficulty(keyword) under the response r of the search
\* request; r.items holds group(1) of the first pattern that matches the
\* page, and is empty when none does.  int('') raises, into the except
estimate_real_difficulty(keyword, r) ==
    IF r.st = "ok" /\ r.items # <<>> /\ RemoveCommas(r.items[1]) # <<>>
    THEN count_difficulty(ParseInt(RemoveCommas(r.items[1])))
    ELSE fallback_difficulty(keyword)

----------------------------------------------------------------------------
(* RealTimeSEOAnalyzer.suggest_content_structure *)

IsLetter(c) == \E i \in 1..26 : LowerLetters[i] = c \/ UpperLetters[i] = c

\* str.title(): a letter that follows no letter is upper-cased, every
\* other letter lower-cased
Title(s) ==
    [i \in 1..Len(s) |->
        IF i = 1 \/ ~IsLetter(s[i - 1]) THEN UpperChar(s[i]) ELSE LowerChar(s[i])]

DefaultTargetLength == 2000

\* a keyword density, 1.53, with which 2000 words do not give a whole
\* number of mentions
FractionalKeywordDensity == Rat(153, 100)

\* keyword_density: 1.5
DefaultKeywordDensity == Rat(3, 2)

suggest_content_structure(keyword, related_keywords) ==
    [titles |->
        << <<"C","o","m","p","l","e","t","e"," ","G","u","i","d","e"," ","t","o"," ">> \o Title(keyword),
           <<"H","o","w"," ","t","o"," ","M","a","s","t","e","r"," ">> \o Title(keyword) \o <<":"," ","E","x","p","e","r","t"," ","T","i","p","s">>,
           Title(keyword) \o <<":"," ","E","v","e","r","y","t","h","i","n","g"," ","Y","o","u"," ","N","e","e","d"," ","t","o"," ","K","n","o","w">>,
           <<"U","l","t","i","m","a","t","e"," ">> \o Title(keyword) \o <<" ","T","u","t","o","r","i","a","l"," ","f","o","r"," ","B","e","g","i","n","n","e","r","s">>,
           <<"A","d","v","a","n","c","e","d"," ">> \o Title(keyword) \o <<":"," ","B","e","s","t"," ","P","r","a","c","t","i","c","e","s">> >>,
     headings |->
        << <<"W","h","a","t"," ","i","s"," ">> \o Title(keyword) \o <<"?">>,
           <<"W","h","y"," ">> \o Title(keyword) \o <<" ","M","a","t","t","e","r","s"," ","i","n"," ","2","0","2","4">>,
           <<"G","e","t","t","i","n","g"," ","S","t","a","r","t","e","d"," ","w","i","t","h"," ">> \o Title(keyword),
           <<"A","d","v","a","n","c","e","d"," ">> \o Title(keyword) \o <<" ","S","t","r","a","t","e","g","i","e","s">>,
           <<"C","o","m","m","o","n"," ">> \o Title(keyword) \o <<" ","M","i","s","t","a","k","e","s"," ","t","o"," ","A","v","o","i","d">>,
           <<"B","e","s","t"," ">> \o Title(keyword) \o <<" ","T","o","o","l","s"," ","a","n","d"," ","R","e","s","o","u","r","c","e","s">>,
           <<"R","e","a","l","-","W","o","r","l","d"," ">> \o Title(keyword) \o <<" ","E","x","a","m","p","l","e","s">>,
           Title(keyword) \o <<" ","F","u","t","u","r","e"," ","T","r","e","n","d","s">> >>,
     meta_description |->
        <<"M","a","s","t","e","r"," ">> \o keyword
          \o <<" ","w","i","t","h"," ","o","u","r"," ","c","o","m","p","r","e","h","e","n","s","i","v","e"," ","g","u","i","d","e","."," ","L","e","a","r","n"," ","p","r","o","v","e","n"," ","s","t","r","a","t","e","g","i","e","s",","," ","a","v","o","i","d"," ","c","o","m","m","o","n"," ","m","i","s","t","a","k","e","s",","," ","a","n","d"," ","g","e","t"," ","e","x","p","e","r","t"," ","t","i","p","s"," ","f","o","r"," ","s","u","c","c","e","s","s",".">>,
     target_length |-> DefaultTargetLength,
     keyword_density |-> DefaultKeywordDensity]


----------------------------------------------------------------------------
(* SEOAnalyzer.suggest_blog_structure, the planner of the offline analyzer *)

\* word_count_target: 1500
OfflineTargetLength == 1500

\* keyword_density: 0.015, a fraction
OfflineKeywordDensity == Rat(15, 1000)

suggest_blog_structure(keyword, related_keywords) ==
    [title_suggestions |->
        << <<"T","h","e"," ","U","l","t","i","m","a","t","e"," ","G","u","i","d","e"," ","t","o"," ">> \o Title(keyword),
           <<"H","o","w"," ","t","o"," ">> \o Title(keyword) \o <<":"," ","C","o","m","p","l","e","t","e"," ","T","u","t","o","r","i","a","l">>,
           Title(keyword) \o <<":"," ","B","e","s","t"," ","P","r","a","c","t","i","c","e","s"," ","a","n","d"," ","T","i","p","s">>,
           <<"E","v","e","r","y","t","h","i","n","g"," ","Y","o","u"," ","N","e","e","d"," ","t","o"," ","K","n","o","w"," ","A","b","o","u","t"," ">> \o Title(keyword),
           Title(keyword) \o <<" ","f","o","r"," ","B","e","g","i","n","n","e","r","s",":"," ","S","t","e","p","-","b","y","-","S","t","e","p"," ","G","u","i","d","e">> >>,
     headings |->
        << <<"W","h","a","t"," ","i","s"," ">> \o Title(keyword) \o <<"?">>,
           <<"W","h","y"," ">> \o Title(keyword) \o <<" ","M","a","t","t","e","r","s">>,
           <<"H","o","w"," ","t","o"," ","G","e","t"," ","S","t","a","r","t","e","d"," ","w","i","t","h"," ">> \o Title(keyword),
           <<"B","e","s","t"," ","P","r","a","c","t","i","c","e","s"," ","f","o","r"," ">> \o Title(keyword),
           <<"C","o","m","m","o","n"," ","M","i","s","t","a","k","e","s"," ","t","o"," ","A","v","o","i","d">>,
           <<"T","o","o","l","s"," ","a","n","d"," ","R","e","s","o","u","r","c","e","s">>,
           <<"C","a","s","e"," ","S","t","u","d","i","e","s"," ","a","n","d"," ","E","x","a","m","p","l","e","s">>,
           <<"C","o","n","c","l","u","s","i","o","n">> >>,
     meta_description |->
        <<"L","e","a","r","n"," ","e","v","e","r","y","t","h","i","n","g"," ","a","b","o","u","t"," ">> \o keyword
          \o <<" ","w","i","t","h"," ","o","u","r"," ","c","o","m","p","r","e","h","e","n","s","i","v","e"," ","g","u","i","d","e","."," ","D","i","s","c","o","v","e","r"," ","b","e","s","t"," ","p","r","a","c","t","i","c","e","s",","," ","t","i","p","s",","," ","a","n","d"," ","s","t","r","a","t","e","g","i","e","s"," ","t","o"," ","m","a","s","t","e","r"," ">>
          \o keyword \o <<" ","t","o","d","a","y",".">>,
     keyword_density |-> OfflineKeywordDensity,
     word_count_target |-> OfflineTargetLength]

----------------------------------------------------------------------------
(* KeywordAPI and SEOAnalyzer.generate_related_keywords of the offline     *)
(* analyzer                                                                *)

\* whether a Datamuse request of the offline analyzer raises: the call, or
\* item['word'] on an item without the key
offline_datamuse_raises(r) ==
    \/ r.st = "raise"
    \/ r.st = "ok" /\ NoWordKey \in Range(r.items)

\* KeywordAPI.get_related_keywords_from_datamuse(keyword): ml and rel_trg
get_related_keywords_from_datamuse(keyword, rs) ==
    IF \E i \in 1..2 : offline_datamuse_raises(rs[i])
    THEN {{}}
    ELSE Truncations(Range(ok_items(SubSeq(rs, 1, 2), 1)), DatamuseCap)

\* generate_related_keywords(seed_keyword, use_api=use_api) raises when a
\* Datamuse word that is not a str was added bare: keyword.split() in the
\* filter has no except around it
offline_generate_raises(use_api, words) ==
    use_api /\ \E w \in words : ~IsStr(w)

\* keyword.replace(' ', '_')
Underscored(keyword) ==
    [i \in 1..Len(keyword) |-> IF keyword[i] = " " THEN "_" ELSE keyword[i]]

\* the requests of generate_related_keywords: suggestions, Datamuse (the
\* second only if the first did not raise), the Wikipedia summary
offline_generate_log(seed_keyword, use_api, resp) ==
    IF use_api
    THEN <<Request("suggest", seed_keyword)>>
           \o [i \in 1..(IF offline_datamuse_raises(resp.dm[1]) THEN 1 ELSE 2) |->
                  Request("datamuse", seed_keyword)]
           \o <<Request("wiki_summary", Underscored(seed_keyword))>>
    ELSE <<>>

\* KeywordAPI.get_google_suggestions(keyword): the list returned.  len() of
\* a truthy item that is not a str raises, into the except
get_google_suggestions(keyword, r) ==
    IF r.st = "ok"
          /\ \A i \in DOMAIN r.items : Truthy(r.items[i]) => IsStr(r.items[i])
    THEN SelectSeq(r.items, LAMBDA s : Truthy(s) /\ Len(s) > 2)
    ELSE <<>>

\* the stopwords of get_wiki_related_terms
stopwords ==
    {
      <<"t","h","a","t">>, <<"w","i","t","h">>, <<"h","a","v","e">>, <<"t","h","i","s">>, <<"w","i","l","l">>, <<"f","r","o","m">>, <<"t","h","e","y">>,
      <<"b","e","e","n">>, <<"w","e","r","e">>, <<"s","a","i","d">>, <<"e","a","c","h">>, <<"w","h","i","c","h">>, <<"t","h","e","i","r">>, <<"t","i","m","e">>,
      <<"a","l","s","o">>, <<"m","o","r","e">>, <<"v","e","r","y">>, <<"w","h","a","t">>, <<"k","n","o","w">>, <<"j","u","s","t">>, <<"f","i","r","s","t">>,
      <<"i","n","t","o">>, <<"o","v","e","r">>, <<"t","h","i","n","k">>, <<"t","h","a","n">>, <<"o","n","l","y">>, <<"c","o","m","e">>, <<"y","e","a","r">>,
      <<"w","o","r","k">>, <<"s","u","c","h">>, <<"m","a","k","e">>, <<"t","h","e","m">>, <<"w","e","l","l">> }

WikiWordMinLen == 4
WikiTermMinLen == 4
OfflineWikiCap == 15

\* re.findall(r'\b[A-Za-z]{4,}\b', extract.lower()), the extract being the
\* terms r.items found in it: their words that are letters only
wiki_words(r) ==
    {w \in UNION {Words(Lower(t)) : t \in Range(r.items)} :
        /\ Len(w) >= WikiWordMinLen
        /\ \A i \in 1..Len(w) : IsLetter(w[i])}

\* KeywordAPI.get_wiki_related_terms(keyword): the lists it may return,
\* each as the set of its members
get_wiki_related_terms(keyword, r) ==
    IF r.st = "ok"
    THEN Truncations({w \in wiki_words(r) :
                         Len(w) > WikiTermMinLen /\ w \notin stopwords},
                     OfflineWikiCap)
    ELSE {{}}

\* SEOAnalyzer.load_common_words()
offline_common_words ==
    {
      <<"h","o","w">>, <<"w","h","a","t">>, <<"w","h","y">>, <<"w","h","e","n">>, <<"w","h","e","r","e">>, <<"g","u","i","d","e">>, <<"t","u","t","o","r","i","a","l">>,
      <<"t","i","p","s">>, <<"b","e","s","t">>, <<"t","o","p">>, <<"r","e","v","i","e","w">>, <<"c","o","m","p","a","r","i","s","o","n">>, <<"v","s">>, <<"v","e","r","s","u","s">>,
      <<"u","l","t","i","m","a","t","e">>, <<"c","o","m","p","l","e","t","e">>, <<"b","e","g","i","n","n","e","r">>, <<"a","d","v","a","n","c","e","d">>, <<"s","t","e","p">>,
      <<"s","t","e","p","s">>, <<"e","a","s","y">>, <<"s","i","m","p","l","e">>, <<"q","u","i","c","k">>, <<"f","a","s","t">>, <<"e","f","f","e","c","t","i","v","e">>,
      <<"p","r","o","v","e","n">>, <<"e","x","a","m","p","l","e","s">>, <<"c","a","s","e">>, <<"s","t","u","d","y">>, <<"f","r","e","e">>, <<"t","o","o","l","s">>,
      <<"s","o","f","t","w","a","r","e">>, <<"a","p","p">>, <<"p","l","a","t","f","o","r","m">>, <<"s","e","r","v","i","c","e">>, <<"s","o","l","u","t","i","o","n">>,
      <<"s","t","r","a","t","e","g","y">>, <<"m","e","t","h","o","d">>, <<"t","e","c","h","n","i","q","u","e">>, <<"a","p","p","r","o","a","c","h">>, <<"w","a","y">>, <<"w","a","y","s">>,
      <<"i","d","e","a","s">>, <<"c","h","e","c","k","l","i","s","t">>, <<"f","r","a","m","e","w","o","r","k">>, <<"p","r","o","c","e","s","s">>, <<"s","y","s","t","e","m">>, <<"h","a","c","k">>,
      <<"h","a","c","k","s">>, <<"s","e","c","r","e","t">>, <<"s","e","c","r","e","t","s">>, <<"t","r","i","c","k">>, <<"t","r","i","c","k","s">>, <<"m","i","s","t","a","k","e">>,
      <<"m","i","s","t","a","k","e","s">>, <<"c","o","m","m","o","n">>, <<"p","o","p","u","l","a","r">>, <<"t","r","e","n","d","i","n","g">>, <<"l","a","t","e","s","t">>, <<"n","e","w">>,
      <<"u","p","d","a","t","e","d">>, <<"m","o","d","e","r","n">>, <<"b","u","s","i","n","e","s","s">>, <<"m","a","r","k","e","t","i","n","g">>, <<"g","r","o","w","t","h">>,
      <<"s","u","c","c","e","s","s">>, <<"p","r","o","f","i","t","a","b","l","e">>, <<"m","o","n","e","y">>, <<"s","t","a","r","t","u","p">>, <<"e","n","t","r","e","p","r","e","n","e","u","r">>,
      <<"f","o","u","n","d","e","r">>, <<"i","n","d","i","e">>, <<"s","o","l","o">>, <<"s","m","a","l","l">>, <<"o","n","l","i","n","e">>, <<"d","i","g","i","t","a","l">>,
      <<"i","n","t","e","r","n","e","t">>, <<"w","e","b">>, <<"w","e","b","s","i","t","e">>, <<"b","l","o","g">>, <<"c","o","n","t","e","n","t">>, <<"s","e","o">>,
      <<"o","p","t","i","m","i","z","a","t","i","o","n">>, <<"r","a","n","k">>, <<"r","a","n","k","i","n","g">>, <<"g","o","o","g","l","e">>, <<"s","e","a","r","c","h">>,
      <<"t","r","a","f","f","i","c">> }

long_tail_modifiers ==
    {
      <<"f","o","r"," ","b","e","g","i","n","n","e","r","s">>, <<"s","t","e","p"," ","b","y"," ","s","t","e","p">>, <<"i","n"," ","2","0","2","4">>, <<"c","o","m","p","l","e","t","e"," ","g","u","i","d","e">>,
      <<"b","e","s","t"," ","p","r","a","c","t","i","c","e","s">>, <<"c","a","s","e"," ","s","t","u","d","y">>, <<"e","x","a","m","p","l","e","s">>, <<"t","u","t","o","r","i","a","l">>,
      <<"h","o","w"," ","t","o">>, <<"w","h","y"," ","y","o","u"," ","n","e","e","d">>, <<"m","i","s","t","a","k","e","s"," ","t","o"," ","a","v","o","i","d">>, <<"t","i","p","s"," ","a","n","d"," ","t","r","i","c","k","s">>,
      <<"f","r","e","e">>, <<"o","n","l","i","n","e">>, <<"s","o","f","t","w","a","r","e">>, <<"t","o","o","l","s">>, <<"s","t","r","a","t","e","g","y">>, <<"t","i","p","s">> }

\* the three members added for a Datamuse word, the bare word among them
offline_datamuse_phrases(word, seed_keyword) ==
    {Join(word, seed_keyword), Join(seed_keyword, word), word}

\* what the API part of generate_related_keywords adds
offline_api_keywords(seed_keyword, google_suggestions, words, terms) ==
    Range(google_suggestions)
        \cup UNION {offline_datamuse_phrases(w, seed_keyword) : w \in words}
        \cup UNION {{Join(t, seed_keyword), Join(seed_keyword, t)} : t \in terms}

\* the combinations with the common words and with the long-tail modifiers
offline_combinations(seed_keyword) ==
    UNION {{Join(c, w), Join(c, seed_keyword), Join(w, c), Join(seed_keyword, c)} :
              <<w, c>> \in Words(clean_text(seed_keyword)) \X offline_common_words}
        \cup UNION {{Join(seed_keyword, m), Join(m, seed_keyword)} :
                       m \in long_tail_modifiers}

OfflineMaxWords == 6
OfflineMinLen == 3

\* the condition of the filter of generate_related_keywords, on a str
offline_keeps(keyword) ==
    WordCount(keyword) <= OfflineMaxWords /\ Len(keyword) >= OfflineMinLen

\* the default of max_keywords, which main() never overrides
max_keywords == 20

\* len(filtered_keywords[:max_keywords * 2]) without the slice
offline_result_len_uncut(kept) == Cardinality(kept)

\* len(filtered_keywords[:max_keywords * 2])
offline_result_len(kept) ==
    IF Cardinality(kept) < max_keywords * 2 THEN Cardinality(kept)
    ELSE max_keywords * 2

\* generate_related_keywords(seed_keyword, use_api=use_api) under the
\* responses resp: the ways the call may end.  related_keywords: the set
\* before the filter; from_words: what was added to it for the Datamuse
\* words; kept: the members that pass the filter; result_len: the length of
\* the list returned, which holds the result_len members of kept that
\* calculate_similarity (difflib's ratio, not modelled) puts first; raised:
\* an exception leaves the method
offline_outcome(seed_keyword, use_api, google_suggestions, words, terms) ==
    LET related_keywords ==
            {Lower(seed_keyword)}
                \cup (IF use_api
                      THEN offline_api_keywords(seed_keyword, google_suggestions,
                                                words, terms)
                      ELSE {})
                \cup offline_combinations(seed_keyword)
        raised == offline_generate_raises(use_api, words)
    IN  [raised |-> raised,
         words |-> IF use_api THEN words ELSE {},
         from_words |->
             IF use_api
             THEN UNION {offline_datamuse_phrases(w, seed_keyword) : w \in words}
             ELSE {},
         related_keywords |-> related_keywords,
         kept |-> IF raised THEN {}
                  ELSE {k \in related_keywords : offline_keeps(k)},
         result_len |->
             IF raised THEN 0
             ELSE offline_result_len({k \in related_keywords : offline_keeps(k)})]

generate_related_keywords(seed_keyword, use_api, resp) ==
    {offline_outcome(seed_keyword, use_api,
                     get_google_suggestions(seed_keyword, resp.auto),
                     wt[1], wt[2]) :
        wt \in get_related_keywords_from_datamuse(seed_keyword, resp.dm)
                 \X get_wiki_related_terms(seed_keyword, resp.wiki[1])}

----------------------------------------------------------------------------
(* st.session_state and main() *)

\* d[k] = v on a dict
Put(d, k, v) == [x \in DOMAIN d \cup {k} |-> IF x = k THEN v ELSE d[x]]

\* d.get(k, default)
Get(d, k, default) == IF k \in DOMAIN d THEN d[k] ELSE default

\* rankbuddy_app.main: the condition that guards the rebuild
needs_rebuild(ss, seed_keyword) ==
    \/ "current_keyword" \notin DOMAIN ss
    \/ ss["current_keyword"] # seed_keyword

\* rankbuddy_app.main: the assignments of the rebuild that follow
\* generate_real_keywords, when it returns all_keywords
rebuild(ss, seed_keyword, all_keywords) ==
    LET s1 == Put(ss, "all_keywords", all_keywords)
        s2 == Put(s1, "short_tail", categorize_keywords(all_keywords).short_tail)
        s3 == Put(s2, "long_tail", categorize_keywords(all_keywords).long_tail)
        s4 == Put(s3, "difficulties", analyze_keyword_difficulty(all_keywords))
    IN  Put(s4, "structure", suggest_content_structure(seed_keyword, all_keywords))

\* offline_needs_rebuild without the comparison of use_apis
offline_needs_rebuild_seed_only(ss, seed_keyword, use_apis) ==
    \/ "current_keyword" \notin DOMAIN ss
    \/ ss["current_keyword"] # seed_keyword

\* rankbuddy_app_backup.main: the condition that guards the rebuild
offline_needs_rebuild(ss, seed_keyword, use_apis) ==
    \/ "current_keyword" \notin DOMAIN ss
    \/ ss["current_keyword"] # seed_keyword
    \/ Get(ss, "use_apis", TRUE) # use_apis

\* rankbuddy_app_backup.main: the assignments that follow
\* generate_related_keywords.  related_keywords is represented by the call
\* that computed it: its arguments and the responses it read
offline_rebuild(ss, seed_keyword, use_apis, resp) ==
    LET related_keywords ==
            [call |-> "generate_related_keywords",
             seed_keyword |-> seed_keyword, use_api |-> use_apis,
             resp |-> IF use_apis
                      THEN <<resp.auto, SubSeq(resp.dm, 1, 2), resp.wiki[1]>>
                      ELSE <<>>]
    IN  Put(Put(ss, "related_keywords", related_keywords),
            "blog_structure",
            suggest_blog_structure(seed_keyword, related_keywords))

----------------------------------------------------------------------------
(* main(): the mention count of the content tab, and generate_ai_prompt    *)

\* int(x), x a rational: truncation toward zero
IntOf(x) == IF x.n >= 0 THEN x.n \div x.d ELSE -((-x.n) \div x.d)

\* int(structure['target_length'] * structure['keyword_density'] / 100)
keyword_mentions(structure) ==
    IntOf(Rat(structure.target_length * structure.keyword_density.n,
              100 * structure.keyword_density.d))

EasyBelow == 30
MediumBelow == 50
EasyCap == 8
MediumCap == 5
SecondaryCap == 12

\* st.session_state.difficulties.items(): a dict keeps its keys in the
\* order of insertion, which analyze_keyword_difficulty makes the order of
\* all_keywords
difficulty_items(ss) ==
    [i \in 1..Len(ss["all_keywords"]) |->
        [kw |-> ss["all_keywords"][i],
         diff |-> ss["difficulties"][ss["all_keywords"][i]]]]

\* [kw for kw, diff in ...items() if diff < 30]
easy_keywords(ss) ==
    LET items == SelectSeq(difficulty_items(ss),
                           LAMBDA it : RLt(it.diff, Whole(EasyBelow)))
    IN  [i \in 1..Len(items) |-> items[i].kw]

\* [kw for kw, diff in ...items() if 30 <= diff < 50]
medium_keywords(ss) ==
    LET items == SelectSeq(difficulty_items(ss),
                           LAMBDA it : /\ RLe(Whole(EasyBelow), it.diff)
                                       /\ RLt(it.diff, Whole(MediumBelow)))
    IN  [i \in 1..Len(items) |-> items[i].kw]

\* generate_ai_prompt(): the values it computes for the text of the prompt
generate_ai_prompt(ss) ==
    [secondary_keywords |->
        Prefix(Prefix(easy_keywords(ss), EasyCap)
                  \o Prefix(medium_keywords(ss), MediumCap),
               SecondaryCap),
     target_words |-> ss["structure"].target_length,
     keyword_density |-> ss["structure"].keyword_density,
     target_mentions |-> keyword_mentions(ss["structure"])]

RunRecord(app, n, seed_keyword, use_apis, rebuilt, raised) ==
    [app |-> app, n |-> n, seed |-> seed_keyword, use_apis |-> use_apis,
     rebuilt |-> rebuilt, raised |-> raised]

----------------------------------------------------------------------------
(* Inputs *)

Repeat(c, n) == [i \in 1..n |-> c]

\* a str of n words of one letter
RECURSIVE LetterWords(_)
LetterWords(n) == IF n = 1 THEN <<"w">> ELSE LetterWords(n - 1) \o <<" ","w">>

AllRaise ==
    Responses(Raise, [i \in 1..10 |-> Raise], [i \in 1..3 |-> Raise],
              [i \in 1..2 |-> Raise])

AllNon200 ==
    Responses(Non200, [i \in 1..10 |-> Non200], [i \in 1..3 |-> Non200],
              [i \in 1..2 |-> Non200])

\* every source answers; some requests inside a source fail
Typical ==
    Responses(
        Ok(<<<<"s","e","o"," ","t","i","p","s">>, <<"S","e","o"," ","T","o","o","l","s"," ","F","r","e","e">>, <<"s","e","o">>, <<"s","e","o"," ","t","i","p","s">>>>),
        [i \in 1..10 |->
            CASE i = 1 -> Ok(<<<<"h","o","w"," ","t","o"," ","s","e","o"," ","a"," ","s","i","t","e">>, <<"h","o","w"," ","t","o"," ","s","e","w">>>>)
              [] i = 2 -> Non200
              [] i = 3 -> Raise
              [] i = 4 -> Ok(<<>>)
              [] OTHER -> Ok(<<<<"b","e","s","t"," ","s","e","o"," ","t","o","o","l","s">>>>)],
        <<Ok(<<<<"r","a","n","k","i","n","g">>, NoWordKey>>), Ok(<<<<"a","u","d","i","t">>, <<"r","a","n","k","i","n","g">>>>), Non200>>,
        <<Ok(<<<<"S","e","a","r","c","h"," ","E","n","g","i","n","e">>, <<"T","h","e">>, <<"W","e","b">>, <<"S","e","a","r","c","h"," ","E","n","g","i","n","e"," ","R","e","s","u","l","t","s"," ","P","a","g","e">>>>),
          Ok(<<<<"S","e","a","r","c","h"," ","e","n","g","i","n","e"," ","o","p","t","i","m","i","z","a","t","i","o","n">>, <<"L","o","c","a","l"," ","s","e","a","r","c","h"," ","e","n","g","i","n","e"," ","o","p","t","i","m","i","s","a","t","i","o","n">>>>)>>)

\* the completion source alone answers, with candidates at the limits of
\* the filter
Boundary ==
    Responses(
        Ok(<<Repeat("a", 100), Repeat("a", 101), Repeat("a", 99) \o <<" ">>,
             LetterWords(6), LetterWords(7), <<"a","b">>, <<" "," ","a"," "," ">>, <<"a","\t","b">>,
             <<" ","S","e","o"," ","T","i","p","s"," ">>>>),
        [i \in 1..10 |-> Non200], [i \in 1..3 |-> Non200], [i \in 1..2 |-> Raise])

\* a completion response whose suggestions include a number
MalformedCompletion ==
    Responses(Ok(<<<<"s","e","o"," ","t","i","p","s">>, JsonNumber>>),
              [i \in 1..10 |-> Ok(<<<<"s","e","o"," ","g","u","i","d","e">>>>)],
              <<Ok(<<<<"a","u","d","i","t">>>>), Non200, Non200>>,
              <<Non200, Ok(<<<<"S","e","a","r","c","h"," ","e","n","g","i","n","e">>>>)>>)

\* a search response whose titles include a number
MalformedTitle ==
    Responses(Ok(<<<<"s","e","o"," ","t","i","p","s">>>>),
              [i \in 1..10 |-> Non200],
              <<Ok(<<<<"a","u","d","i","t">>>>), Non200, Non200>>,
              <<Non200, Ok(<<<<"S","e","a","r","c","h"," ","e","n","g","i","n","e">>, JsonNumber>>)>>)

\* numbers where the code survives them: a variation's suggestions and a
\* Datamuse word
MalformedSwallowed ==
    Responses(Ok(<<<<"s","e","o"," ","t","i","p","s">>>>),
              [i \in 1..10 |->
                  IF i = 2 THEN Ok(<<<<"s","e","o"," ","a","u","d","i","t">>, JsonNumber>>)
                  ELSE Ok(<<<<"s","e","o"," ","g","u","i","d","e">>>>)],
              <<Ok(<<JsonNumber>>), Non200, Non200>>,
              <<Non200, Non200>>)

\* the 25 words a b .. y
ManyWords == [i \in 1..DatamuseCap |-> <<LowerLetters[i]>>]

\* Datamuse alone answers, with as many words as it may return
ManyCandidates ==
    Responses(Raise, [i \in 1..10 |-> Raise],
              <<Ok(SubSeq(ManyWords, 1, 20)), Ok(SubSeq(ManyWords, 21, 25)),
                Non200>>,
              [i \in 1..2 |-> Raise])

\* the 22 suggestions of ManySuggestions: the seed 'seo' itself, then seo a
\* .. seo u
ManyCompletions ==
    [i \in 1..(AutocompleteCap + 2) |->
        IF i = 1 THEN <<"s","e","o">> ELSE <<"s","e","o"," ">> \o <<LowerLetters[i - 1]>>]

\* the completion source alone answers, with more than it may return
ManySuggestions ==
    Responses(Ok(ManyCompletions), [i \in 1..10 |-> Non200],
              [i \in 1..3 |-> Non200], [i \in 1..2 |-> Non200])

\* the k-th of 31 suggestions that contain 'seo'
RelatedItem(k) ==
    <<"s","e","o"," ">> \o <<LowerLetters[((k - 1) \div 6) + 1], LowerLetters[((k - 1) % 6) + 1]>>

\* the variations alone answer, each with four suggestions, the last of
\* one being the first of the next: 31 in all
ManyRelated ==
    Responses(Non200,
              [i \in 1..10 |-> Ok([j \in 1..4 |-> RelatedItem(3 * (i - 1) + j)])],
              [i \in 1..3 |-> Non200], [i \in 1..2 |-> Non200])

\* Datamuse alone answers, with the 26 words a .. z, one of them twice
ManySemantic ==
    Responses(Non200, [i \in 1..10 |-> Non200],
              <<Ok(SubSeq(ManyWords, 1, 20)),
                Ok(SubSeq(ManyWords, 20, 25) \o <<<<"z">>>>), Non200>>,
              [i \in 1..2 |-> Non200])

\* the k-th of 21 terms
WikiItem(k) == <<"T","e","r","m">> \o <<LowerLetters[k]>>

\* Wikipedia alone answers, with 12 terms in the summary and 10 titles, one
\* of them a term of the summary: 21 in all
ManyTitles ==
    Responses(Non200, [i \in 1..10 |-> Non200], [i \in 1..3 |-> Non200],
              <<Ok([k \in 1..12 |-> WikiItem(k)]),
                Ok([k \in 1..10 |-> WikiItem(k + 11)])>>)

\* a request of Datamuse and one of Wikipedia raise after an earlier one
\* of the same source has answered
RaiseAfterResults ==
    Responses(Ok(<<<<"s","e","o"," ","t","i","p","s">>>>), [i \in 1..10 |-> Non200],
              <<Ok(<<<<"a","u","d","i","t">>>>), Raise, Ok(<<<<"r","a","n","k","i","n","g">>>>)>>,
              <<Ok(<<<<"S","e","a","r","c","h"," ","E","n","g","i","n","e">>>>), Raise>>)

\* a request of Datamuse and one of Wikipedia answer with another status
\* than 200, between or before requests that answer
Non200Between ==
    Responses(Ok(<<<<"s","e","o"," ","t","i","p","s">>>>), [i \in 1..10 |-> Non200],
              <<Ok(<<<<"a","u","d","i","t">>>>), Non200, Ok(<<<<"r","a","n","k","i","n","g">>>>)>>,
              <<Non200, Ok(<<<<"S","e","a","r","c","h"," ","e","n","g","i","n","e">>>>)>>)

AggSeeds ==
    {<<"a","i">>, <<"s","e","o">>, <<" ","S","e","o"," ">>, <<" "," "," ">>, <<"c","o","n","t","e","n","t"," ","m","a","r","k","e","t","i","n","g">>, <<"x">>,
     Repeat("a", 100), Repeat("a", 101), LetterWords(7)}

AggScenarios ==
    {AllRaise, AllNon200, Typical, Boundary, MalformedCompletion,
     MalformedTitle, MalformedSwallowed}

AggInputs ==
    (AggSeeds \X AggScenarios)
        \cup ({<<"s","e","o">>} \X {ManyCandidates, ManySuggestions, ManyRelated,
                          ManyTitles, RaiseAfterResults, Non200Between})
        \cup {<<Repeat("a", 101), ManySemantic>>}

SessionSeeds == {<<>>, <<"a","i">>, <<"s","e","o">>, <<"S","e","o"," ","T","i","p","s">>, Repeat("a", 101)}

SessionScenarios == {AllRaise, Typical, MalformedCompletion, MalformedSwallowed}

\* the runs of main() in one session
MaxRuns == 3

\* the pools categorize_keywords is called on: lists without repeats of at
\* most MaxPoolLen of these keywords
CatKeywords ==
    {<<"s","e","o">>, <<"s","e","o"," ","t","i","p","s">>, <<"s","e","o"," "," ","t","i","p","s">>, <<"b","e","s","t"," ","s","e","o"," ","t","i","p","s">>, <<"a"," ","b","\t","c"," ","d">>, <<>>}

MaxPoolLen == 3

RECURSIVE PoolsUpTo(_)
PoolsUpTo(n) ==
    IF n = 0 THEN {<<>>}
    ELSE PoolsUpTo(n - 1)
           \cup {Append(p, k) : <<p, k>> \in
                    {<<q, j>> \in PoolsUpTo(n - 1) \X CatKeywords :
                        Len(q) = n - 1 /\ j \notin Range(q)}}

EstKeywords ==
    {<<>>, <<" "," "," ">>, <<"a">>, <<"s","e","o">>, <<"b","e","s","t">>, <<"B","e","s","t"," ","F","r","e","e"," ","S","E","O"," ","T","o","o","l","s">>,
     <<"h","o","w"," ","w","h","a","t"," ","b","e","s","t"," ","t","o","p"," ","g","u","i","d","e"," ","t","i","p","s">>,
     <<"c","h","e","a","p"," ","p","r","i","c","e"," ","r","e","v","i","e","w"," ","b","u","y"," ","t","o","p"," ","f","r","e","e"," ","b","e","s","t">>,
     <<"a","d","v","a","n","c","e","d"," ","i","n","d","u","s","t","r","i","a","l"," ","k","e","y","w","o","r","d"," ","r","e","s","e","a","r","c","h"," ","m","e","t","h","o","d","o","l","o","g","y">>,
     <<"a"," ","b"," ","c"," ","d"," ","e"," ","f"," ","g">>, <<"c","o","n","t","e","n","t","-","m","a","r","k","e","t","i","n","g","!">>,
     Repeat("a", 40), <<"t","o","p"," ","t","o","p">>, <<"S","t","o","p","w","a","t","c","h"," ","p","r","i","c","e","l","i","s","t">>}

\* what the search page leads to: group(1) of the result count, if any
EstResponses ==
    {Raise, Non200, Ok(<<>>), Ok(<<<<",">>>>), Ok(<<<<"0">>>>), Ok(<<<<"2",",","4","9","9">>>>),
     Ok(<<<<"2",",","5","0","0">>>>), Ok(<<<<"9",",","9","9","9">>>>), Ok(<<<<"1","0",",","0","0","0">>>>), Ok(<<<<"5","0","0","0","0">>>>),
     Ok(<<<<"9","9",",","9","9","9">>>>), Ok(<<<<"1","0","0",",","0","0","0">>>>), Ok(<<<<"9","9","9",",","9","9","9">>>>),
     Ok(<<<<"1",",","0","0","0",",","0","0","0">>>>), Ok(<<<<"9",",","9","9","9",",","9","9","9">>>>), Ok(<<<<"1","0",",","0","0","0",",","0","0","0">>>>),
     Ok(<<<<"9","4",",","9","9","9",",","9","9","9">>>>), Ok(<<<<"9","5",",","0","0","0",",","0","0","0">>>>), Ok(<<<<"1",",","2","3","0",",","0","0","0",",","0","0","0">>>>)}

----------------------------------------------------------------------------
(* States and actions *)

Idle == [done |-> FALSE]

NoRun(app) == RunRecord(app, 0, <<>>, TRUE, FALSE, FALSE)

\* a session of either application, before the first run of main()
Init ==
    /\ session_state = <<>>
    /\ run \in {NoRun("realtime"), NoRun("offline")}
    /\ issued = <<>>
    /\ prompt = Idle
    /\ agg = Idle
    /\ cat = Idle
    /\ est = Idle

\* one run of rankbuddy_app.main with seed_keyword in the text input
main(seed_keyword, resp) ==
    /\ run.app = "realtime"
    /\ run.n < MaxRuns
    /\ IF seed_keyword # <<>> /\ needs_rebuild(session_state, seed_keyword)
       THEN \E o \in generate_real_keywords(seed_keyword, resp) :
              /\ session_state' =
                    IF o.raised
                    THEN Put(session_state, "current_keyword", seed_keyword)
                    ELSE rebuild(Put(session_state, "current_keyword", seed_keyword),
                                 seed_keyword, o.pool)
              /\ issued' = generate_log(seed_keyword, resp)
              /\ run' = RunRecord(run.app, run.n + 1, seed_keyword, TRUE,
                                  TRUE, o.raised)
       ELSE /\ session_state' = session_state
            /\ issued' = <<>>
            /\ run' = RunRecord(run.app, run.n + 1, seed_keyword, TRUE,
                                FALSE, FALSE)
    /\ UNCHANGED <<agg, cat, est, prompt>>

\* one run of rankbuddy_app_backup.main with seed_keyword in the text input
\* and use_apis in the checkbox
offline_main(seed_keyword, use_apis, resp) ==
    /\ run.app = "offline"
    /\ run.n < MaxRuns
    /\ IF seed_keyword # <<>>
            /\ offline_needs_rebuild(session_state, seed_keyword, use_apis)
       THEN \E words \in get_related_keywords_from_datamuse(seed_keyword, resp.dm) :
              /\ session_state' =
                    LET s == Put(Put(session_state, "current_keyword", seed_keyword),
                                 "use_apis", use_apis)
                    IN  IF offline_generate_raises(use_apis, words) THEN s
                        ELSE offline_rebuild(s, seed_keyword, use_apis, resp)
              /\ issued' = offline_generate_log(seed_keyword, use_apis, resp)
              /\ run' = RunRecord(run.app, run.n + 1, seed_keyword, use_apis,
                                  TRUE, offline_generate_raises(use_apis, words))
       ELSE /\ session_state' = session_state
            /\ issued' = <<>>
            /\ run' = RunRecord(run.app, run.n + 1, seed_keyword, use_apis,
                                FALSE, FALSE)
    /\ UNCHANGED <<agg, cat, est, prompt>>

Next ==
    \/ \E s \in SessionSeeds, r \in SessionScenarios : main(s, r)
    \/ \E s \in SessionSeeds, u \in BOOLEAN, r \in SessionScenarios :
          offline_main(s, u, r)

Spec == Init /\ [][Next]_vars

----------------------------------------------------------------------------
(* generate_real_keywords called twice on one seed and one set of responses *)

InitAgg ==
    /\ session_state = <<>>
    /\ run = NoRun("realtime")
    /\ issued = <<>>
    /\ prompt = Idle
    /\ agg \in {[done |-> FALSE, n |-> 0, seed |-> in[1], resp |-> in[2],
                 first |-> <<>>, last |-> <<>>] : in \in AggInputs}
    /\ cat = Idle
    /\ est = Idle

FirstCall ==
    /\ agg.n = 0
    /\ \E o \in generate_real_keywords(agg.seed, agg.resp) :
          agg' = [agg EXCEPT !.n = 1, !.first = o, !.last = o]
    /\ issued' = generate_log(agg.seed, agg.resp)
    /\ UNCHANGED <<session_state, run, cat, est, prompt>>

SecondCall ==
    /\ agg.n = 1
    /\ \E o \in generate_real_keywords(agg.seed, agg.resp) :
          agg' = [agg EXCEPT !.n = 2, !.last = o, !.done = TRUE]
    /\ issued' = generate_log(agg.seed, agg.resp)
    /\ UNCHANGED <<session_state, run, cat, est, prompt>>

NextAgg == FirstCall \/ SecondCall

SpecAgg == InitAgg /\ [][NextAgg]_vars

----------------------------------------------------------------------------
(* categorize_keywords on a pool *)

InitCat ==
    /\ session_state = <<>>
    /\ run = NoRun("realtime")
    /\ issued = <<>>
    /\ prompt = Idle
    /\ agg = Idle
    /\ cat \in {[done |-> FALSE, keywords |-> p, short_tail |-> <<>>,
                 long_tail |-> <<>>] : p \in PoolsUpTo(MaxPoolLen)}
    /\ est = Idle

Categorize ==
    /\ ~cat.done
    /\ cat' = [cat EXCEPT !.done = TRUE,
                          !.short_tail = categorize_keywords(cat.keywords).short_tail,
                          !.long_tail = categorize_keywords(cat.keywords).long_tail]
    /\ UNCHANGED <<session_state, run, issued, agg, est, prompt>>

NextCat == Categorize

SpecCat == InitCat /\ [][NextCat]_vars

----------------------------------------------------------------------------
(* the three difficulty estimators on a keyword *)

InitEst ==
    /\ session_state = <<>>
    /\ run = NoRun("offline")
    /\ issued = <<>>
    /\ prompt = Idle
    /\ agg = Idle
    /\ cat = Idle
    /\ est \in {[done |-> FALSE, keyword |-> k, resp |-> r, lexical |-> Whole(0),
                 frequency |-> Whole(0), real |-> Whole(0)] :
                    <<k, r>> \in EstKeywords \X EstResponses}

Estimate ==
    /\ ~est.done
    /\ est' = [est EXCEPT
                 !.done = TRUE,
                 !.lexical = estimate_keyword_difficulty(est.keyword),
                 !.frequency = frequency_difficulty(est.keyword),
                 !.real = estimate_real_difficulty(est.keyword, est.resp)]
    /\ UNCHANGED <<session_state, run, issued, agg, cat, prompt>>

NextEst == Estimate

SpecEst == InitEst /\ [][NextEst]_vars


----------------------------------------------------------------------------
(* the lexical and the frequency-informed heuristic on two keywords: a     *)
(* keyword and the keyword with one more token, or the two keywords of a   *)
(* comparison                                                              *)

\* the tokens appended
PairTokens == {<<"a">>, <<"b","e","s","t">>, <<"h","o","w">>, <<"s","e","o">>, <<"m","e","t","h","o","d","o","l","o","g","y">>}

PairInputs ==
    {<<k, Join(k, t)>> : <<k, t>> \in
        {kt \in EstKeywords \X PairTokens : WordCount(kt[1]) > 0}}
      \cup {<<<<"a">>, <<"a","d","v","a","n","c","e","d"," ","i","n","d","u","s","t","r","i","a","l"," ","k","e","y","w","o","r","d"," ","r","e","s","e","a","r","c","h"," ","m","e","t","h","o","d","o","l","o","g","y">>>>}

InitPair ==
    /\ session_state = <<>>
    /\ run = NoRun("realtime")
    /\ issued = <<>>
    /\ prompt = Idle
    /\ agg = Idle
    /\ cat = Idle
    /\ est \in {[done |-> FALSE, keyword |-> in[1], other |-> in[2],
                 lexical |-> Whole(0), frequency |-> Whole(0),
                 lexical_other |-> Whole(0), frequency_other |-> Whole(0)] :
                    in \in PairInputs}

EstimatePair ==
    /\ ~est.done
    /\ est' = [est EXCEPT
                 !.done = TRUE,
                 !.lexical = estimate_keyword_difficulty(est.keyword),
                 !.frequency = frequency_difficulty(est.keyword),
                 !.lexical_other = estimate_keyword_difficulty(est.other),
                 !.frequency_other = frequency_difficulty(est.other)]
    /\ UNCHANGED <<session_state, run, issued, agg, cat, prompt>>

NextPair == EstimatePair

SpecPair == InitPair /\ [][NextPair]_vars

----------------------------------------------------------------------------
(* the result-count estimator on one keyword under two responses of the    *)
(* search request                                                          *)

CountKeywords == {<<>>, <<"s","e","o">>, <<"a"," ","b"," ","c"," ","d"," ","e"," ","f"," ","g">>, Repeat("a", 40)}

InitCount ==
    /\ session_state = <<>>
    /\ run = NoRun("offline")
    /\ issued = <<>>
    /\ prompt = Idle
    /\ agg = Idle
    /\ cat = Idle
    /\ est \in {[done |-> FALSE, keyword |-> k, resp |-> r, other |-> o,
                 real |-> Whole(0), real_other |-> Whole(0)] :
                    <<k, r, o>> \in CountKeywords \X EstResponses \X EstResponses}

EstimateCounts ==
    /\ ~est.done
    /\ est' = [est EXCEPT
                 !.done = TRUE,
                 !.real = estimate_real_difficulty(est.keyword, est.resp),
                 !.real_other = estimate_real_difficulty(est.keyword, est.other)]
    /\ UNCHANGED <<session_state, run, issued, agg, cat, prompt>>

NextCount == EstimateCounts

SpecCount == InitCount /\ [][NextCount]_vars

----------------------------------------------------------------------------
(* generate_related_keywords of the offline analyzer on one seed and one   *)
(* set of responses                                                        *)

InitOffline ==
    /\ session_state = <<>>
    /\ run = NoRun("offline")
    /\ issued = <<>>
    /\ prompt = Idle
    /\ agg \in {[done |-> FALSE, seed |-> in[1], resp |-> in[2],
                 use_api |-> u, last |-> <<>>] :
                    in \in AggSeeds \X AggScenarios, u \in BOOLEAN}
    /\ cat = Idle
    /\ est = Idle

OfflineCall ==
    /\ ~agg.done
    /\ \E o \in generate_related_keywords(agg.seed, agg.use_api, agg.resp) :
          agg' = [agg EXCEPT !.done = TRUE, !.last = o]
    /\ issued' = offline_generate_log(agg.seed, agg.use_api, agg.resp)
    /\ UNCHANGED <<session_state, run, cat, est, prompt>>

NextOffline == OfflineCall

SpecOffline == InitOffline /\ [][NextOffline]_vars

----------------------------------------------------------------------------
(* generate_ai_prompt on the cache of a seed *)

PromptSeed == <<"s","e","o">>

\* two-word keywords, with difficulties 43, 42, 41, 40, 39 and 38
MediumKeywords ==
    {<<"s","e","o"," ","t","i","p","s">>, <<"s","e","o"," ","g","u","i","d","e">>, <<"s","e","o"," ","b","a","s","i","c","s">>, <<"s","e","o"," ","r","a","n","k","i","n","g">>, <<"s","e","o"," ","s","t","r","a","t","e","g","y">>,
     <<"s","e","o"," ","c","h","e","c","k","l","i","s","t">>}

\* three-word keywords, with difficulties below 30, no two the same
EasyKeywords ==
    {<<"s","e","o"," ","t","i","p","s"," ","n","o","w">>, <<"s","e","o"," ","t","i","p","s"," ","h","e","r","e">>, <<"s","e","o"," ","t","i","p","s"," ","g","u","i","d","e">>, <<"s","e","o"," ","t","i","p","s"," ","b","a","s","i","c","s">>,
     <<"s","e","o"," ","t","i","p","s"," ","r","o","a","d","m","a","p">>, <<"s","e","o"," ","t","i","p","s"," ","t","u","t","o","r","i","a","l">>, <<"s","e","o"," ","t","i","p","s"," ","c","h","e","c","k","l","i","s","t">>,
     <<"s","e","o"," ","t","i","p","s"," ","s","t","r","a","t","e","g","i","e","s">>, <<"s","e","o"," ","t","i","p","s"," ","f","u","n","d","a","m","e","n","t","a","l","s">>}

RECURSIVE Orders(_)
\* the lists that hold each member of S once
Orders(S) ==
    IF S = {} THEN {<<>>}
    ELSE UNION {{<<x>> \o p : p \in Orders(S \ {x})} : x \in S}

\* the list q in the opposite order
Reversed(q) == [i \in 1..Len(q) |-> q[Len(q) + 1 - i]]

\* the pools of the seed: list(set(...)) leaves their order open
PromptPools ==
    Orders(MediumKeywords \cup {PromptSeed})
        \cup {AsList(EasyKeywords \cup MediumKeywords \cup {PromptSeed}),
              Reversed(AsList(EasyKeywords \cup MediumKeywords \cup {PromptSeed})),
              AsList(EasyKeywords) \o AsList(MediumKeywords) \o <<PromptSeed>>}

InitPrompt ==
    /\ session_state \in
          {rebuild(Put(<<>>, "current_keyword", PromptSeed), PromptSeed, pool) :
              pool \in PromptPools}
    /\ run = RunRecord("realtime", 1, PromptSeed, TRUE, TRUE, FALSE)
    /\ issued = <<>>
    /\ agg = Idle
    /\ cat = Idle
    /\ est = Idle
    /\ prompt = Idle

\* the content tab and the export tab of one run of main()
AssemblePrompt ==
    /\ ~prompt.done
    /\ prompt' = [done |-> TRUE,
                  keyword_mentions |->
                      keyword_mentions(session_state["structure"]),
                  ai_prompt |-> generate_ai_prompt(session_state)]
    /\ UNCHANGED <<session_state, run, issued, agg, cat, est>>

NextPrompt == AssemblePrompt

SpecPrompt == InitPrompt /\ [][NextPrompt]_vars
----------------------------------------------------------------------------
(* Claims *)

\* the seed as a Keyword: lower-cased and trimmed
Normalized(seed) == Lower(Strip(seed))

AllSourcesFail(resp) == resp \in {AllRaise, AllNon200}

\* C1: for every non-empty seed the pool returned by generate_real_keywords
\* contains the normalized seed, even when every source fails and
\* contributes nothing.
C1_SeedInPool ==
    (agg.n >= 1 /\ agg.seed # <<>> /\ AllSourcesFail(agg.resp))
        => /\ ~agg.last.raised
           /\ Normalized(agg.seed) \in Range(agg.last.pool)

\* C2: no outcome of a source call (exception, non-200 status, a response
\* with items that are not strings) aborts the aggregation: whatever the
\* responses, generate_real_keywords returns a pool.
C2_NeverAborts ==
    agg.n >= 1 => ~agg.last.raised

\* C3: categorize_keywords partitions the pool: a member is in short_tail
\* iff it has at most 2 whitespace-separated tokens and in long_tail
\* otherwise, each member in exactly one bucket, once.
C3_Partition ==
    cat.done =>
        /\ \A k \in Range(cat.keywords) :
              /\ k \in Range(cat.short_tail) <=> WordCount(k) <= 2
              /\ k \in Range(cat.long_tail) <=> WordCount(k) > 2
        /\ Range(cat.short_tail) \cup Range(cat.long_tail) = Range(cat.keywords)
        /\ Range(cat.short_tail) \cap Range(cat.long_tail) = {}
        /\ Len(cat.short_tail) + Len(cat.long_tail) = Len(cat.keywords)

\* a pool with members in both buckets, one of them with exactly 2 tokens
C3_Witness ==
    /\ cat.done
    /\ cat.short_tail # <<>>
    /\ cat.long_tail # <<>>
    /\ \E k \in Range(cat.short_tail) : WordCount(k) = 2

InRange0To100(x) == RLe(Whole(0), x) /\ RLe(x, Whole(100))

\* C4: for every keyword the difficulty score lies in [0,100], under the
\* lexical heuristic, the frequency-informed heuristic and the result-count
\* estimator with its fallback.
C4_ScoreRange ==
    est.done =>
        /\ InRange0To100(est.lexical)
        /\ InRange0To100(est.frequency)
        /\ InRange0To100(est.real)

\* a keyword long enough for the floor of the lexical heuristic to act,
\* scored from a result count
C4_Witness ==
    /\ est.done
    /\ REq(est.lexical, Whole(10))
    /\ WordCount(est.keyword) >= 5
    /\ est.resp.st = "ok" /\ est.resp.items # <<>>
    /\ REq(est.real, Whole(95))

\* C5: every member of the returned pool is a valid Keyword: normalized, it
\* has between 3 and 100 characters and at most 6 tokens.
C5_ValidKeywords ==
    (agg.n >= 1 /\ ~agg.last.raised) =>
        \A k \in Range(agg.last.pool) :
            /\ 3 <= Len(Normalized(k))
            /\ Len(Normalized(k)) <= 100
            /\ WordCount(Normalized(k)) <= 6

\* C6: the returned pool has at most 50 members, holds none twice, and
\* every member is lower-cased with no leading or trailing whitespace.
C6_PoolShape ==
    (agg.n >= 1 /\ ~agg.last.raised) =>
        /\ Len(agg.last.pool) <= 50
        /\ \A i, j \in DOMAIN agg.last.pool :
              i # j => agg.last.pool[i] # agg.last.pool[j]
        /\ \A k \in Range(agg.last.pool) : Lower(k) = k /\ Strip(k) = k

\* more than 50 candidates passed the filter and the pool holds 50
C6_Witness ==
    /\ agg.n >= 1
    /\ ~agg.last.raised
    /\ Cardinality(agg.last.kept) > 50
    /\ Len(agg.last.pool) = 50

\* whether a candidate reached filtered_keywords, and through it the pool
\* unless the pool was cut at 50
Retained(k) ==
    /\ k \in agg.last.kept
    /\ Len(agg.last.pool) < 50 => Normalized(k) \in Range(agg.last.pool)

Excluded(k) ==
    /\ k \notin agg.last.kept
    /\ (\A k2 \in agg.last.kept : Normalized(k2) # Normalized(k))
          => Normalized(k) \notin Range(agg.last.pool)

\* C7: at the filter a candidate of 101 characters is excluded and one of
\* 100 characters is retained; a candidate of 7 tokens is excluded and one
\* of 6 tokens is retained (the other limit being met).
C7_FilterBoundary ==
    (agg.n >= 1 /\ ~agg.last.raised) =>
        \A k \in agg.last.all_keywords :
            /\ Len(k) = 101 => Excluded(k)
            /\ (Len(k) = 100 /\ WordCount(k) <= 6) => Retained(k)
            /\ WordCount(k) = 7 => Excluded(k)
            /\ (WordCount(k) = 6 /\ 3 <= Len(k) /\ Len(k) <= 100) => Retained(k)

\* candidates of 100 and 101 characters and of 6 and 7 tokens went through
\* the filter
C7_Witness ==
    /\ agg.n >= 1
    /\ ~agg.last.raised
    /\ \E k \in agg.last.all_keywords : Len(k) = 100 /\ Retained(k)
    /\ \E k \in agg.last.all_keywords : Len(k) = 101
    /\ \E k \in agg.last.all_keywords : WordCount(k) = 6 /\ Retained(k)
    /\ \E k \in agg.last.all_keywords : WordCount(k) = 7

\* C8: two calls of generate_real_keywords with the same seed and the same
\* source responses return the same pool as a set, also when more than 50
\* candidates pass the filter and the pool is cut.
C8_Idempotent ==
    (agg.n = 2 /\ ~agg.first.raised /\ ~agg.last.raised) =>
        Range(agg.first.pool) = Range(agg.last.pool)

\* C9: an invalid seed (empty, or longer than the maximum keyword length of
\* 100) is rejected before aggregation: the run issues no source request.
C9_InvalidSeedRejected ==
    (run.n >= 1 /\ (run.seed = <<>> \/ Len(run.seed) > 100)) => issued = <<>>

\* no seed is cached, or the cached seed is not the requested one
SeedChanged(seed) ==
    \/ "current_keyword" \notin DOMAIN session_state
    \/ session_state["current_keyword"] # seed

\* a run of main() with a seed in the text input
Requested == run'.n = run.n + 1 /\ run'.seed # <<>>

\* C10 as stated: over any sequence of requests the cache is computed on
\* the first request for a seed and rebuilt exactly when the requested seed
\* differs from the cached seed; a repeated request with the same seed
\* issues no source calls and leaves the cache unchanged.
C10_RebuildOnSeedChangeOnly ==
    [][Requested =>
          /\ run'.rebuilt <=> SeedChanged(run'.seed)
          /\ ~SeedChanged(run'.seed) =>
                (issued' = <<>> /\ session_state' = session_state)]_vars

\* the cached use-APIs flag of the offline analyzer is not the requested one
FlagChanged(use_apis) ==
    run.app = "offline" /\ Get(session_state, "use_apis", TRUE) # use_apis

\* C10 amended: the rebuild runs exactly when the requested seed differs
\* from the cached seed (or none is cached) or, in the offline analyzer,
\* the use-APIs flag differs from the cached flag; it records the seed as
\* the cached one; a request that repeats the cached seed (and flag) issues
\* no source calls and leaves the cache unchanged.
C10_RebuildRule ==
    [][Requested =>
          /\ run'.rebuilt <=>
                (SeedChanged(run'.seed) \/ FlagChanged(run'.use_apis))
          /\ run'.rebuilt => session_state'["current_keyword"] = run'.seed
          /\ ~run'.rebuilt =>
                (issued' = <<>> /\ session_state' = session_state)]_vars

\* a request that repeated the cached seed after an earlier rebuild and
\* issued nothing
C10_Witness ==
    /\ run.n >= 2
    /\ run.seed # <<>>
    /\ ~run.rebuilt
    /\ "current_keyword" \in DOMAIN session_state
    /\ session_state["current_keyword"] = run.seed
    /\ issued = <<>>


\* the cache of the real-time analyzer is marked as holding a seed
MarkedCurrent ==
    run.app = "realtime" /\ "current_keyword" \in DOMAIN session_state

\* the parts of the cache that main() derives from the seed
CacheParts ==
    {"all_keywords", "short_tail", "long_tail", "difficulties", "structure"}

\* pool is a pool generate_real_keywords returns for seed under some
\* responses
DerivedFrom(pool, seed) ==
    \E r \in SessionScenarios :
        \E o \in generate_real_keywords(seed, r) : ~o.raised /\ o.pool = pool

\* C11: in every reachable state, also after a run whose computation failed
\* part-way, when the cache is marked as holding seed S then the pool, the
\* buckets, the score map and the content structure are all there and were
\* all derived from S, and the score map has one entry per pool member.
C11_CacheConsistent ==
    MarkedCurrent =>
        /\ CacheParts \subseteq DOMAIN session_state
        /\ DerivedFrom(session_state["all_keywords"],
                       session_state["current_keyword"])
        /\ session_state["short_tail"] =
              categorize_keywords(session_state["all_keywords"]).short_tail
        /\ session_state["long_tail"] =
              categorize_keywords(session_state["all_keywords"]).long_tail
        /\ DOMAIN session_state["difficulties"] =
              Range(session_state["all_keywords"])
        /\ \A k \in Range(session_state["all_keywords"]) :
              session_state["difficulties"][k] = estimate_keyword_difficulty(k)
        /\ session_state["structure"] =
              suggest_content_structure(session_state["current_keyword"],
                                        session_state["all_keywords"])

\* C11, the stale case alone: a cache with all its parts is marked with the
\* seed its structure was planned for
C11_NeverStale ==
    (MarkedCurrent /\ "structure" \in DOMAIN session_state) =>
        session_state["structure"] =
            suggest_content_structure(session_state["current_keyword"],
                                      session_state["all_keywords"])

\* C12: a keyword without tokens (empty, or whitespace only) gets the
\* default score 50 from the lexical and from the frequency-informed
\* heuristic, and the scoring does not fail.
C12_EmptyScoresDefault ==
    (est.done /\ WordCount(est.keyword) = 0) =>
        /\ REq(est.lexical, Whole(50))
        /\ REq(est.frequency, Whole(50))

\* min(95, max(10, 80 - 15*tokenCount - 2*avgTokenLength) + 5*k), the
\* average being 0 for a keyword without tokens
LexicalFormula(keyword, k) ==
    LET tokenCount == WordCount(keyword)
        unclamped ==
            IF tokenCount = 0 THEN Whole(80)
            ELSE Rat(80 * tokenCount - 15 * tokenCount * tokenCount
                        - 2 * SumWordLen(keyword),
                     tokenCount)
    IN  RMin(Whole(95), RAdd(RMax(Whole(10), unclamped), Whole(5 * k)))

\* C13 as stated: the lexical heuristic returns
\* min(95, max(10, 80 - 15*tokenCount - 2*avgTokenLength) + 5*k) with k the
\* number of occurrences in the keyword of terms of the vocabulary best,
\* top, free, review, buy, cheap, price.
C13_BoostPerOccurrence ==
    est.done =>
        REq(est.lexical,
            LexicalFormula(est.keyword,
                           Cardinality(TermOccurrences(Lower(est.keyword)))))

\* C13 amended: the lexical heuristic returns
\* min(95, max(10, 80 - 15*tokenCount - 2*avgTokenLength) + 5*k) with k the
\* number of terms of the vocabulary that occur, at least once and as
\* substrings, in the lower-cased keyword.
C13_LexicalFormula ==
    est.done =>
        REq(est.lexical,
            LexicalFormula(est.keyword,
                           Cardinality({t \in high_competition_terms :
                                           Contains(Lower(est.keyword), t)})))

\* a keyword was scored in which one term of the vocabulary occurs twice:
\* "top top" scores 80 - 30 - 6 + 5 = 49
C13_Witness ==
    /\ est.done
    /\ \E o1, o2 \in TermOccurrences(Lower(est.keyword)) :
          o1[1] = o2[1] /\ o1[2] # o2[2]
    /\ REq(est.lexical, Whole(49))

RECURSIVE GCD(_, _)
GCD(a, b) == IF b = 0 THEN a ELSE GCD(b, a % b)

\* a rational in lowest terms
Reduced(r) ==
    LET g == GCD(IF r.n < 0 THEN -r.n ELSE r.n, r.d)
    IN  Rat(r.n \div g, r.d \div g)

\* the sum of a word-frequency contribution capped at 50, of
\* max(0, 30 - 5*tokenCount) and of max(0, 20 - 2*avgTokenLength), clamped
\* to [0,100]; the tokens are those of the cleaned keyword
FrequencyFormula(keyword) ==
    LET text == clean_text(keyword)
        tokenCount == WordCount(text)
        contribution ==
            Reduced(RMin(Rat(total_frequency(keyword), 10000), Whole(50)))
        countPenalty == IF 30 - 5 * tokenCount > 0 THEN 30 - 5 * tokenCount ELSE 0
        lengthPenalty ==
            IF tokenCount = 0 THEN Whole(20)
            ELSE RMax(Whole(0),
                      Rat(20 * tokenCount - 2 * SumWordLen(text), tokenCount))
        sum == RAdd(RAdd(contribution, Whole(countPenalty)), lengthPenalty)
    IN  Reduced(RMax(Whole(0), RMin(Whole(100), sum)))

\* C14: the frequency-informed heuristic returns the sum of a
\* word-frequency contribution capped at 50, max(0, 30 - 5*tokenCount) and
\* max(0, 20 - 2*avgTokenLength), clamped to [0,100].
C14_FrequencyFormula ==
    est.done => REq(est.frequency, FrequencyFormula(est.keyword))

\* a keyword was scored whose frequency contribution is capped and whose
\* token-count penalty is at its floor: 50 + 0 + (20 - 2 * 23/6)
C14_Witness ==
    /\ est.done
    /\ total_frequency(est.keyword) > 500000
    /\ WordCount(clean_text(est.keyword)) >= 6
    /\ REq(est.frequency, Rat(187, 3))

\* the second keyword of the pair is the first with one more token
OneMoreToken == \E t \in PairTokens : est.other = Join(est.keyword, t)

\* C15: under the lexical and under the frequency-informed heuristic,
\* appending one more token to a keyword never yields a higher score than
\* the shorter keyword had.
C15_MonotonicInSpecificity ==
    (est.done /\ OneMoreToken) =>
        /\ RLe(Reduced(est.lexical_other), Reduced(est.lexical))
        /\ RLe(Reduced(est.frequency_other), Reduced(est.frequency))

\* C15 for the lexical heuristic alone
C15_LexicalMonotonic ==
    (est.done /\ OneMoreToken) =>
        RLe(Reduced(est.lexical_other), Reduced(est.lexical))

\* C15 for the frequency-informed heuristic alone
C15_FrequencyMonotonic ==
    (est.done /\ OneMoreToken) =>
        RLe(Reduced(est.frequency_other), Reduced(est.frequency))

\* C16: under the lexical heuristic the score of "a" is greater than or
\* equal to the score of "advanced industrial keyword research
\* methodology".
C16_ShortAboveSpecific ==
    (/\ est.done
     /\ est.keyword = <<"a">>
     /\ est.other = <<"a","d","v","a","n","c","e","d"," ","i","n","d","u","s","t","r","i","a","l"," ","k","e","y","w","o","r","d"," ","r","e","s","e","a","r","c","h"," ","m","e","t","h","o","d","o","l","o","g","y">>)
        => RLe(est.lexical_other, est.lexical)

\* the two keywords were scored: 80 - 15 - 2 = 63 and the floor, 10
C16_Witness ==
    /\ est.done
    /\ est.keyword = <<"a">>
    /\ est.other = <<"a","d","v","a","n","c","e","d"," ","i","n","d","u","s","t","r","i","a","l"," ","k","e","y","w","o","r","d"," ","r","e","s","e","a","r","c","h"," ","m","e","t","h","o","d","o","l","o","g","y">>
    /\ REq(est.lexical, Whole(63))
    /\ REq(est.lexical_other, Whole(10))

\* the structure the last run planned, whichever analyzer ran: its titles,
\* its headings, its target length and its keyword density in percent
Planned ==
    IF run.app = "realtime"
    THEN [titles |-> session_state["structure"].titles,
          headings |-> session_state["structure"].headings,
          length |-> session_state["structure"].target_length,
          percent |-> session_state["structure"].keyword_density]
    ELSE [titles |-> session_state["blog_structure"].title_suggestions,
          headings |-> session_state["blog_structure"].headings,
          length |-> session_state["blog_structure"].word_count_target,
          percent |->
              Rat(100 * session_state["blog_structure"].keyword_density.n,
                  session_state["blog_structure"].keyword_density.d)]

\* the last run planned a structure for its seed
PlanRan == run.n >= 1 /\ run.rebuilt /\ ~run.raised

\* 5 titles and 8 headings that each contain the title-cased seed, target
\* length 2000 and keyword density 1.5 percent
PlanShape(plan, seed) ==
    /\ Len(plan.titles) = 5
    /\ Len(plan.headings) = 8
    /\ \A i \in 1..Len(plan.titles) : Contains(plan.titles[i], Title(seed))
    /\ \A i \in 1..Len(plan.headings) : Contains(plan.headings[i], Title(seed))
    /\ plan.length = 2000
    /\ REq(plan.percent, Rat(3, 2))

\* C17: for every seed the planner produces exactly 5 title candidates and
\* exactly 8 heading candidates, each containing the title-cased seed,
\* with target length 2000 and keyword density 1.5 percent.
C17_PlanShape ==
    PlanRan => PlanShape(Planned, run.seed)

\* C17 for suggest_content_structure of the real-time analyzer alone
C17_RealTimePlanShape ==
    (PlanRan /\ run.app = "realtime") => PlanShape(Planned, run.seed)

\* for every word the semantic source returned, the phrases "word seed" and
\* "seed word" were added to the candidates, and nothing else was
TwoPhrasesPerWord(o, seed) ==
    /\ \A w \in o.words :
          {Join(w, seed), Join(seed, w)} \subseteq o.from_words
    /\ o.from_words \subseteq
          UNION {{Join(w, seed), Join(seed, w)} : w \in o.words}

\* C18: for every word returned by the semantic source, aggregation adds
\* "word seed" and "seed word" to the candidate set and never the bare word
\* itself (here: generate_related_keywords of the offline analyzer).
C18_NoBareWord ==
    agg.done =>
        /\ agg.last.from_words \subseteq agg.last.related_keywords
        /\ TwoPhrasesPerWord(agg.last, agg.seed)

\* C18 for generate_real_keywords of the real-time analyzer
C18_RealTimeNoBareWord ==
    agg.n >= 1 =>
        /\ agg.last.from_words \subseteq agg.last.all_keywords
        /\ TwoPhrasesPerWord(agg.last, agg.seed)

\* round(x) of Python, x a rational that is not negative: to the nearest
\* integer, a half to the even one
Round(x) ==
    LET q == x.n \div x.d
        twice == 2 * (x.n % x.d)
    IN  IF twice < x.d THEN q
        ELSE IF twice > x.d THEN q + 1
        ELSE IF q % 2 = 0 THEN q ELSE q + 1

\* targetLength * density / 100 of the cached structure
MentionsOf(structure) ==
    Rat(structure.target_length * structure.keyword_density.n,
        100 * structure.keyword_density.d)

Selected == Range(prompt.ai_prompt.secondary_keywords)
Difficulty(k) == Reduced(session_state["difficulties"][k])
Band(k) ==
    IF RLt(Difficulty(k), Whole(30)) THEN "easy"
    ELSE IF RLt(Difficulty(k), Whole(50)) THEN "medium" ELSE "hard"

\* every secondary keyword has a difficulty below 50, and those below 30
\* come before those in [30,50)
C20_BelowFiftyEasyFirst ==
    prompt.done =>
        /\ \A k \in Selected : Band(k) # "hard"
        /\ \A i, j \in DOMAIN prompt.ai_prompt.secondary_keywords :
              (/\ Band(prompt.ai_prompt.secondary_keywords[i]) = "medium"
               /\ Band(prompt.ai_prompt.secondary_keywords[j]) = "easy")
                  => i > j

\* C20: the secondary keywords are the lowest-difficulty subset of the
\* pool: each has a difficulty below 50, those below 30 come before those
\* in [30,50), and no pool keyword left out has a lower difficulty than a
\* selected one of the same band.
C20_LowestDifficultySubset ==
    prompt.done =>
        /\ \A k \in Selected : Band(k) # "hard"
        /\ \A i, j \in DOMAIN prompt.ai_prompt.secondary_keywords :
              (/\ Band(prompt.ai_prompt.secondary_keywords[i]) = "medium"
               /\ Band(prompt.ai_prompt.secondary_keywords[j]) = "easy")
                  => i > j
        /\ \A u \in Range(session_state["all_keywords"]) \ Selected :
              \A k \in Selected :
                  Band(u) = Band(k) => ~RLt(Difficulty(u), Difficulty(k))

\* whether the log entry e is the request of a query variation of seed
IsTemplateRequest(e, seed) ==
    /\ e.ev = "request"
    /\ e.api = "suggest"
    /\ e.q \in Range(Variations(seed))

\* whether the variation answered by r went through: status 200 and every
\* suggestion a str
Answered(r) ==
    r.st = "ok" /\ \A i \in DOMAIN r.items : IsStr(r.items[i])

\* C21: in the relation variant an exception of one template's request does
\* not block the rest: each of the 10 templates is requested, once and in
\* order, whatever the earlier ones led to, and the suggestions of the
\* templates that went through (those that contain the seed) are in the
\* list returned, unless the cut to 30 dropped them.
C21_TemplatesIndependent ==
    agg.n >= 1 =>
        /\ SelectSeq(issued, LAMBDA e : IsTemplateRequest(e, agg.seed))
              = [i \in 1..10 |-> Request("suggest", Variations(agg.seed)[i])]
        /\ \A i \in 1..10 :
              Answered(agg.resp.rel[i]) =>
                  \A s \in Range(agg.resp.rel[i].items) :
                      (s # <<>> /\ Contains(Lower(s), Lower(agg.seed)))
                          => \/ s \in Range(agg.last.returned.related)
                             \/ Len(agg.last.returned.related) = RelatedCap

\* a template raises, a later one answers and its suggestion is returned
C21_Witness ==
    /\ agg.n >= 1
    /\ \E i \in 1..10, j \in 1..10 :
          /\ i < j
          /\ agg.resp.rel[i].st = "raise"
          /\ Answered(agg.resp.rel[j])
          /\ \E s \in Range(agg.resp.rel[j].items) :
                s \in Range(agg.last.returned.related)

\* C22: successive template requests are paced: between any two consecutive
\* template requests there is a delay, whether the earlier one succeeded,
\* answered with another status than 200, or raised.
C22_Paced ==
    agg.n >= 1 =>
        \A j \in 1..(Len(issued) - 1) :
            (/\ IsTemplateRequest(issued[j], agg.seed)
             /\ \E k \in (j + 1)..Len(issued) :
                   IsTemplateRequest(issued[k], agg.seed))
                => issued[j + 1] = Sleep

\* C22 for the templates whose try block ran to its end: a delay follows
\* the request of each
C22_PacedAfterAnswer ==
    agg.n >= 1 =>
        \A j \in 1..Len(issued) :
            (/\ IsTemplateRequest(issued[j], agg.seed)
             /\ \E i \in 1..10 :
                   /\ issued[j].q = Variations(agg.seed)[i]
                   /\ ~VariationRaises(agg.resp.rel[i]))
                => (j < Len(issued) /\ issued[j + 1] = Sleep)

\* the requests of the log q
Requests(q) == SelectSeq(q, LAMBDA e : e.ev = "request")

\* the requests of the log q to the endpoints apis
RequestsTo(q, apis) == SelectSeq(Requests(q), LAMBDA e : e.api \in apis)

MaxTemplateRequests == 10
MaxSemanticRequests == 3
MaxEncyclopedicRequests == 2
MaxRequests == 16

\* at most 16 requests, no query of an endpoint twice
BoundedRequests(q, seed) ==
    /\ Len(Requests(q)) <= MaxRequests
    /\ Len(SelectSeq(q, LAMBDA e : e = Request("suggest", seed))) <= 1
    /\ Len(SelectSeq(q, LAMBDA e : IsTemplateRequest(e, seed)))
          <= MaxTemplateRequests
    /\ Len(RequestsTo(q, Range(DatamuseRelations))) <= MaxSemanticRequests
    /\ Len(RequestsTo(q, {"wiki_summary", "wiki_search"}))
          <= MaxEncyclopedicRequests
    /\ \A i \in DOMAIN Requests(q), j \in DOMAIN Requests(q) :
          i # j => Requests(q)[i] # Requests(q)[j]

\* C23: an aggregation makes a bounded number of requests and retries none:
\* each query of an endpoint (1 completion, 10 templates, 3 semantic, 2
\* encyclopedic) is requested at most once, at most 16 requests in all, and
\* the aggregation ends whatever the requests lead to: a call that is to be
\* made has a way to end.
C23_BoundedRequests ==
    /\ agg.n >= 1 => BoundedRequests(issued, agg.seed)
    /\ agg.n < 2 => generate_real_keywords(agg.seed, agg.resp) # {}

\* an aggregation that made all 16 requests, and one that made fewer since
\* requests raised
C23_Witness ==
    /\ agg.n >= 1
    /\ \/ Len(Requests(issued)) = MaxRequests
       \/ /\ Len(Requests(issued)) = 13
          /\ agg.resp = AllRaise

\* C24: the completion variant returns at most 20 suggestions, and the seed
\* itself is never one of them.
C24_CompletionShape ==
    agg.n >= 1 =>
        /\ Len(agg.last.returned.suggestions) <= 20
        /\ agg.seed \notin Range(agg.last.returned.suggestions)
        /\ Range(agg.last.returned.suggestions) \subseteq Range(agg.resp.auto.items)

\* the endpoint answers with more than 20 suggestions, the seed among the
\* first 20, and 20 are returned
C24_Witness ==
    /\ agg.n >= 1
    /\ agg.resp.auto.st = "ok"
    /\ Len(agg.resp.auto.items) > 20
    /\ \E i \in 1..20 : agg.resp.auto.items[i] = agg.seed
    /\ Len(agg.last.returned.suggestions) = 20

\* the suggestions the ten variations of the aggregation were answered with
TemplateSuggestions ==
    UNION {Range(agg.resp.rel[i].items) : i \in 1..10}

\* C25 as stated: every string returned by the relation variant contains
\* the seed as a substring.
C25_ContainsSeed ==
    agg.n >= 1 =>
        \A s \in Range(agg.last.returned.related) : Contains(s, agg.seed)

\* C25: every string returned by the relation variant is a suggestion that
\* contains the seed as a substring, both taken in lower case; a
\* suggestion that does not is never part of the result.
C25_ContainsSeedIgnoringCase ==
    agg.n >= 1 =>
        /\ \A s \in Range(agg.last.returned.related) :
              /\ s \in TemplateSuggestions
              /\ Contains(Lower(s), Lower(agg.seed))
        /\ \A s \in TemplateSuggestions :
              (IsStr(s) /\ ~Contains(Lower(s), Lower(agg.seed)))
                  => s \notin Range(agg.last.returned.related)

\* a suggestion is returned that contains the seed in another case only,
\* and a suggestion without the seed is left out
C25_Witness ==
    /\ agg.n >= 1
    /\ \E s \in Range(agg.last.returned.related) : ~Contains(s, agg.seed)
    /\ \E s \in TemplateSuggestions :
          /\ IsStr(s)
          /\ ~Contains(Lower(s), Lower(agg.seed))
          /\ s \notin Range(agg.last.returned.related)

\* the list q holds no value twice
NoRepeats(q) == \A i, j \in DOMAIN q : i # j => q[i] # q[j]

\* C26: the relation, the semantic and the encyclopedic variant each return
\* a list without repeats, of at most 30, 25 and 20 members, whatever the
\* endpoints answer.
C26_VariantShape ==
    agg.n >= 1 =>
        /\ NoRepeats(agg.last.returned.related)
        /\ Len(agg.last.returned.related) <= 30
        /\ NoRepeats(agg.last.returned.words)
        /\ Len(agg.last.returned.words) <= 25
        /\ NoRepeats(agg.last.returned.terms)
        /\ Len(agg.last.returned.terms) <= 20

\* Datamuse answers with 26 words, one of them twice, and 25 are returned
C26_Witness ==
    /\ agg.n >= 1
    /\ ~NoRepeats(datamuse_words(agg.resp.dm))
    /\ Cardinality(Range(datamuse_words(agg.resp.dm))) > 25
    /\ Len(agg.last.returned.words) = 25

\* the variations are answered with 31 suggestions that hold the seed, some
\* of them twice, and 30 are returned
C26_WitnessRelated ==
    /\ agg.n >= 1
    /\ ~NoRepeats(related_list(agg.seed, agg.resp.rel, 1))
    /\ Cardinality(Range(related_list(agg.seed, agg.resp.rel, 1))) > 30
    /\ Len(agg.last.returned.related) = 30

\* Wikipedia answers with 21 terms, one of them twice, and 20 are returned
C26_WitnessTerms ==
    /\ agg.n >= 1
    /\ ~NoRepeats(wikipedia_terms(agg.resp.wiki))
    /\ Cardinality(Range(wikipedia_terms(agg.resp.wiki))) > 20
    /\ Len(agg.last.returned.terms) = 20

\* "term seed" and "seed term", the term in lower case
TermPhrases(t, seed) == {Join(Lower(t), seed), Join(seed, Lower(t))}

\* C27: for a term of the encyclopedic source, aggregation adds "term seed"
\* and "seed term" to the candidates only when the term has at most 3
\* tokens; a term of 4 or more tokens adds nothing.
C27_ShortTermsOnly ==
    (agg.n >= 1 /\ \A t \in Range(agg.last.returned.terms) : IsStr(t)) =>
        /\ \A t \in Range(agg.last.returned.terms) :
              WordCount(t) <= 3 =>
                  /\ TermPhrases(t, agg.seed) \subseteq agg.last.from_terms
                  /\ TermPhrases(t, agg.seed) \subseteq agg.last.all_keywords
        /\ agg.last.from_terms \subseteq
              UNION {TermPhrases(t, agg.seed) :
                        t \in {u \in Range(agg.last.returned.terms) :
                                  WordCount(u) <= 3}}

\* a term of 3 tokens whose two phrases are candidates and a term of 4
\* tokens whose phrases are not
C27_Witness ==
    /\ agg.n >= 1
    /\ \E t \in Range(agg.last.returned.terms) :
          /\ IsStr(t)
          /\ WordCount(t) = 3
          /\ TermPhrases(t, agg.seed) \subseteq agg.last.all_keywords
    /\ \E t \in Range(agg.last.returned.terms) :
          /\ IsStr(t)
          /\ WordCount(t) = 4
          /\ TermPhrases(t, agg.seed) \cap agg.last.all_keywords = {}

\* whether one of the sequential requests answered by rs raises
SomeRaise(rs) == \E i \in DOMAIN rs : rs[i].st = "raise"

\* the requests made when the responses are rs: up to the first that
\* raises
RequestsMade(rs) ==
    IF SomeRaise(rs)
    THEN CHOOSE i \in DOMAIN rs :
            rs[i].st = "raise" /\ \A j \in 1..(i - 1) : rs[j].st # "raise"
    ELSE Len(rs)

\* what the responses of rs with status 200 hold
AnsweredItems(rs) ==
    UNION {Range(rs[i].items) : i \in {j \in DOMAIN rs : rs[j].st = "ok"}}

\* C28 for one variant: returned is the list it returned, made the number
\* of requests it made, cap its cut; of the items answered, must are those
\* the variant has to return and may those it can return
SequentialVariant(rs, returned, made, cap, must, may) ==
    /\ made = RequestsMade(rs)
    /\ SomeRaise(rs) => returned = <<>>
    /\ ~SomeRaise(rs) =>
          /\ Range(returned) \subseteq may
          /\ Len(returned) < cap => must \subseteq Range(returned)

\* C28: in the semantic and the encyclopedic variant, when one of the
\* sequential requests raises the variant returns the empty list: what the
\* earlier requests brought is discarded and the later requests are not
\* made.  A request answered with another status than 200 drops only what
\* it would have brought.
C28_RaiseEmptiesVariant ==
    agg.n >= 1 =>
        /\ SequentialVariant(
              agg.resp.dm, agg.last.returned.words,
              Len(RequestsTo(issued, Range(DatamuseRelations))), 25,
              AnsweredItems(agg.resp.dm) \ {NoWordKey},
              AnsweredItems(agg.resp.dm) \ {NoWordKey})
        /\ SequentialVariant(
              agg.resp.wiki, agg.last.returned.terms,
              Len(RequestsTo(issued, {"wiki_summary", "wiki_search"})), 20,
              IF agg.resp.wiki[2].st = "ok" THEN Range(agg.resp.wiki[2].items)
              ELSE {},
              AnsweredItems(agg.resp.wiki))

\* the first Datamuse request brings a word, the second raises: nothing is
\* returned and the third is not made
C28_Witness ==
    /\ agg.n >= 1
    /\ agg.resp.dm[1].st = "ok"
    /\ agg.resp.dm[1].items # <<>>
    /\ agg.resp.dm[2].st = "raise"
    /\ agg.last.returned.words = <<>>
    /\ Len(RequestsTo(issued, Range(DatamuseRelations))) = 2

\* the second Datamuse request is answered with another status than 200:
\* the words of the first and the third are returned
C28_WitnessNon200 ==
    /\ agg.n >= 1
    /\ agg.resp.dm[2].st = "non200"
    /\ agg.resp.dm[1].st = "ok"
    /\ agg.resp.dm[3].st = "ok"
    /\ Range(agg.last.returned.words)
          = Range(agg.resp.dm[1].items) \cup Range(agg.resp.dm[3].items)
    /\ agg.last.returned.words # <<>>

\* C29: generate_related_keywords of the offline analyzer with use_api
\* disabled makes no request to a source, and its result has at most
\* 2 * max_keywords (40) entries, each of at least 3 characters and at most
\* 6 tokens.
C29_OfflineResult ==
    (agg.done /\ ~agg.use_api) =>
        /\ issued = <<>>
        /\ ~agg.last.raised
        /\ agg.last.result_len <= 40
        /\ agg.last.result_len <= Cardinality(agg.last.kept)
        /\ \A k \in agg.last.kept : Len(k) >= 3 /\ WordCount(k) <= 6

\* a call with use_api disabled: more than 40 candidates pass the filter,
\* candidates of fewer than 3 characters or more than 6 tokens do not, and
\* 40 are returned
C29_Witness ==
    /\ agg.done
    /\ ~agg.use_api
    /\ Cardinality(agg.last.kept) > 40
    /\ agg.last.result_len = 40
    /\ \E k \in agg.last.related_keywords : k \notin agg.last.kept

\* whether the response r led to a result count: status 200, a pattern
\* matched and its group holds a digit
HasCount(r) ==
    r.st = "ok" /\ r.items # <<>> /\ RemoveCommas(r.items[1]) # <<>>

\* the result count the response r reports
ReportedCount(r) == ParseInt(RemoveCommas(r.items[1]))

\* a <= b for rationals that are not negative, by whole part and then by
\* fraction
LeByParts(a, b) ==
    IF a.d = b.d THEN a.n <= b.n
    ELSE IF a.n \div a.d # b.n \div b.d THEN a.n \div a.d < b.n \div b.d
    ELSE (a.n % a.d) * b.d <= (b.n % b.d) * a.d

\* C30: the result-count estimator is monotonically non-decreasing in the
\* reported count and within [5,95] when a count is found; when no count is
\* found or the request fails it falls back to a lexical score within
\* [10,50].
C30_CountEstimator ==
    est.done =>
        /\ HasCount(est.resp) =>
              RLe(Whole(5), est.real) /\ RLe(est.real, Whole(95))
        /\ ~HasCount(est.resp) =>
              RLe(Whole(10), est.real) /\ RLe(est.real, Whole(50))
        /\ (/\ HasCount(est.resp)
            /\ HasCount(est.other)
            /\ ReportedCount(est.resp) <= ReportedCount(est.other))
              => LeByParts(est.real, est.real_other)

\* two counts on the two sides of the limit of a band, the larger scored
\* higher
C30_Witness ==
    /\ est.done
    /\ HasCount(est.resp)
    /\ HasCount(est.other)
    /\ ReportedCount(est.resp) = 9999
    /\ ReportedCount(est.other) = 10000
    /\ ~LeByParts(est.real_other, est.real)

\* the fallback at both ends of its range
C30_WitnessFallback ==
    /\ est.done
    /\ est.resp.st = "raise"
    /\ est.other.st = "non200"
    /\ \/ REq(est.real, Whole(10))
       \/ REq(est.real, Whole(50))
====
